---- MODULE Spec2Model ----
(***************************************************************************)
(* Model of the rustcraft server: the wire codec and framing               *)
(* (protocol_types/primitives.rs, packets/parse.rs, protocol_util.rs),     *)
(* the packet handlers (packets/server.rs) and the per-connection actor    *)
(* with its reader, writer and heartbeat tasks (serve.rs, connection.rs).  *)
(*                                                                         *)
(* Bytes are integers 0..255.  A 64-bit value (i64, f64) is kept as its    *)
(* 8 big-endian bytes and a 32-bit float as its 4 bytes: that is a         *)
(* bijection with the Rust value, and it keeps every number within the     *)
(* range of the model checker's integers.                                  *)
(***************************************************************************)
EXTENDS Integers, Sequences, FiniteSets, TLC

(***************************************************************************)
(* Bounds of the model.                                                    *)
(***************************************************************************)
\* number of distinct nonces rand::random can return in the model
MaxNonce == 1
\* payload length of the arbitrary frames of the framing specification
MaxPayload == 3
\* keepalives that can wait in the queue when the next heartbeat sleep ends
MaxKeepAlivesQueued == 1
\* number of distinct verify tokens LoginStart can draw
MaxToken == 1
\* messages that can still wait in the queue when the reader takes the next
\* frame
MaxBacklog == 0
\* the number of block states and biomes new to a section that callers set
MaxFresh == 1
\* the number of calls of a behaviour that pass a position outside the section
MaxOutside == 1
\* the number of values of a packed array beyond its first word
MaxSpill == 1
\* the number of times a behaviour resizes a packed array
MaxResizes == 1
\* the number of elements of a length-prefixed sequence
MaxVecLen == 2
\* the number of bytes that follow a value on a stream
MaxTrailer == 1
\* the highest choice among the values of a packet's fields, and the
\* greatest length of the sequences in a packet
MaxVariant == 2
\* the number of blocks a behaviour sets in the world
MaxWrites == 2
\* the number of connections the listener accepts
MaxConnections == 2
\* the number of requests for /players
MaxRequests == 1
\* the number of position packets the connections handle
MaxMoves == 2
\* the length of the short sequences of bytes hexdigest is given
MaxDigestLen == 2

(***************************************************************************)
(* Program constants.                                                      *)
(***************************************************************************)
SEGMENT_BITS == 127
CONTINUE_BIT == 128
QUEUE_CAPACITY == 8
COLUMN_HEIGHT == 24
CHUNK_RADIUS == 3
MAX_STRING_LEN == 131071
LOGIN_START_TAIL == 16
WORD_BITS == 64
GLOBAL_PALETTE_BITS_BLOCKS == 15
GLOBAL_PALETTE_BITS_BIOMES == 6
MIN_PALETTE_BITS_BLOCKS == 4
MIN_PALETTE_BITS_BIOMES == 1
MAX_PALETTE_BITS_BLOCKS == 8
MAX_PALETTE_BITS_BIOMES == 3
SECTION_EDGE == 16
AIR == 0
NEUTRAL_BIOME == 39

(***************************************************************************)
(* Sequences helpers.                                                      *)
(***************************************************************************)
Pow2(n) == 2 ^ n

SubSeqFrom(s, p) == SubSeq(s, p, Len(s))

Zeros(n) == [i \in 1..n |-> 0]

\* `let x = v;` followed by the code that uses x: v is computed first
With(v, Code(_)) == CHOOSE result \in {Code(x) : x \in {v}} : TRUE

(***************************************************************************)
(* Cursor results.  A read starts at index p of the byte sequence s (the   *)
(* bytes the socket or the cursor can still deliver); eof says that no     *)
(* byte will follow s.  st is "ok", "err" (the read returned Err),         *)
(* "block" (the read waits for bytes the peer has not sent yet) or "panic".*)
(* pos is the index of the first byte not consumed.                        *)
(***************************************************************************)
Res(st, val, pos) == [st |-> st, val |-> val, pos |-> pos]

\* read_exact of n bytes: at end of stream the bytes that are left are
\* consumed and the read fails
ReadExact(s, p, n, eof) ==
    IF p + n - 1 <= Len(s)
    THEN Res("ok", SubSeq(s, p, p + n - 1), p + n)
    ELSE IF eof THEN Res("err", <<>>, Len(s) + 1)
         ELSE Res("block", <<>>, p)

\* take(n).read_to_end: reads n bytes, or fewer when the stream ends first
TakeToEnd(s, p, n, eof) ==
    IF p + n - 1 <= Len(s)
    THEN Res("ok", SubSeq(s, p, p + n - 1), p + n)
    ELSE IF eof THEN Res("ok", SubSeqFrom(s, p), Len(s) + 1)
         ELSE Res("block", <<>>, p)

(***************************************************************************)
(* VarInt.  The value is a signed 32-bit integer.  The first four groups   *)
(* fill bits 0..27; of the fifth group only the low four bits survive the  *)
(* 32-bit shift, and they are bits 28..31 of the two's-complement value.   *)
(***************************************************************************)
VarIntGroup(b, pos) ==
    IF pos < 28 THEN (b % CONTINUE_BIT) * Pow2(pos)
    ELSE LET n == b % 16 IN (IF n >= 8 THEN n - 16 ELSE n) * Pow2(28)

\* the loop with the limit one group too early
RECURSIVE VarIntReadLoopShort(_, _, _, _, _)
VarIntReadLoopShort(s, p, eof, value, pos) ==
    With(ReadExact(s, p, 1, eof), LAMBDA r :
      IF r.st # "ok" THEN Res(r.st, 0, r.pos)
      ELSE With(value + VarIntGroup(r.val[1], pos), LAMBDA v2 :
             IF r.val[1] < CONTINUE_BIT THEN Res("ok", v2, p + 1)
             ELSE IF pos + 7 >= 28 THEN Res("err", 0, p + 1)
                  ELSE VarIntReadLoopShort(s, p + 1, eof, v2, pos + 7)))

RECURSIVE VarIntReadLoop(_, _, _, _, _)
VarIntReadLoop(s, p, eof, value, pos) ==
    With(ReadExact(s, p, 1, eof), LAMBDA r :
      IF r.st # "ok" THEN Res(r.st, 0, r.pos)
      ELSE With(value + VarIntGroup(r.val[1], pos), LAMBDA v2 :
             IF r.val[1] < CONTINUE_BIT THEN Res("ok", v2, p + 1)
             ELSE IF pos + 7 >= 32 THEN Res("err", 0, p + 1)
                  ELSE VarIntReadLoop(s, p + 1, eof, v2, pos + 7)))

VarIntRead(s, p, eof) == VarIntReadLoop(s, p, eof, 0, 0)

\* the value as u32, split in its low 28 bits and its high 4 bits
U32Lo(v) == v % Pow2(28)
U32Hi(v) == (v \div Pow2(28)) % 16

\* (v as u32) >> 7
VarIntShr7(v) == U32Hi(v) * Pow2(21) + (U32Lo(v) \div CONTINUE_BIT)

RECURSIVE VarIntSizeLoop(_, _)
VarIntSizeLoop(x, count) ==
    IF x = 0 THEN count ELSE VarIntSizeLoop(x \div CONTINUE_BIT, count + 1)

\* prot_size: x >>= 7, count += 1, until x = 0
VarIntSize(v) == VarIntSizeLoop(VarIntShr7(v), 1)

RECURSIVE VarIntWriteLoop(_, _)
VarIntWriteLoop(temp, x) ==
    \* temp: the low seven bits taken before the shift, x: the value after it
    IF x = 0 THEN <<temp>>
    ELSE <<temp + CONTINUE_BIT>>
         \o VarIntWriteLoop(x % CONTINUE_BIT, x \div CONTINUE_BIT)

VarIntWrite(v) == VarIntWriteLoop(U32Lo(v) % CONTINUE_BIT, VarIntShr7(v))

(***************************************************************************)
(* Field readers (ReadProt).  String::from_utf8 accepts the bytes below    *)
(* 0x80; the byte values of 0x80 and above that occur in the model (0x80,  *)
(* 0xfc, 0xdd, 0xff ...) never form a valid multi-byte sequence in the     *)
(* strings the model builds, so a string holding one of them is rejected.  *)
(***************************************************************************)
Utf8Valid(bs) == \A i \in 1..Len(bs) : bs[i] < CONTINUE_BIT

StringRead(s, p, eof) ==
    With(VarIntRead(s, p, eof), LAMBDA len :
      IF len.st # "ok" THEN Res(len.st, <<>>, len.pos)
      ELSE IF len.val < 0 \/ len.val > MAX_STRING_LEN
           THEN Res("err", <<>>, len.pos)
           ELSE With(TakeToEnd(s, len.pos, len.val, eof), LAMBDA data :
                  IF data.st # "ok" THEN Res(data.st, <<>>, p)
                  ELSE IF Utf8Valid(data.val) THEN data
                       ELSE Res("err", <<>>, data.pos)))

\* SizedVec<u8>: the count, then one u8 read per element until the sizes
\* read add up to the count; a negative count is a huge usize
SizedVecU8Read(s, p, eof) ==
    With(VarIntRead(s, p, eof), LAMBDA len :
      IF len.st # "ok" THEN Res(len.st, <<>>, len.pos)
      ELSE IF len.val < 0
           THEN IF eof THEN Res("err", <<>>, Len(s) + 1)
                ELSE Res("block", <<>>, p)
           ELSE With(ReadExact(s, len.pos, len.val, eof), LAMBDA data :
                  IF data.st = "block" THEN Res("block", <<>>, p) ELSE data))

FixedSize(ty) ==
    CASE ty = "u8"   -> 1
      [] ty = "bool" -> 1
      [] ty = "u16"  -> 2
      [] ty = "f32"  -> 4
      [] ty = "i64"  -> 8
      [] ty = "f64"  -> 8
      [] ty = "uuid" -> 16

ReadField(ty, s, p, eof) ==
    IF ty = "varint" THEN VarIntRead(s, p, eof)
    ELSE IF ty = "string" THEN StringRead(s, p, eof)
    ELSE IF ty = "vec" THEN SizedVecU8Read(s, p, eof)
    ELSE With(ReadExact(s, p, FixedSize(ty), eof), LAMBDA r :
           IF r.st = "ok" /\ ty = "bool" THEN Res("ok", r.val[1] = 1, r.pos)
           ELSE IF r.st = "ok" /\ ty = "u8" THEN Res("ok", r.val[1], r.pos)
           ELSE IF r.st = "ok" /\ ty = "u16"
                THEN Res("ok", r.val[1] * 256 + r.val[2], r.pos)
           ELSE r)

\* the generated ReadProtPacket::read: the fields in declaration order
RECURSIVE ReadFields(_, _, _, _, _)
ReadFields(schema, s, p, eof, acc) ==
    IF schema = <<>> THEN Res("ok", acc, p)
    ELSE With(ReadField(Head(schema), s, p, eof), LAMBDA r :
           IF r.st = "block" THEN Res("block", <<>>, p)
           ELSE IF r.st # "ok" THEN Res(r.st, <<>>, r.pos)
           ELSE ReadFields(Tail(schema), s, r.pos, eof, Append(acc, r.val)))

\* a variant that skips the id's byte once more
SkipLength(s, p, n, eof) ==
    IF n < 0 THEN Res("panic", <<>>, p) ELSE TakeToEnd(s, p, n + 1, eof)

\* skip(stream, n): Vec::with_capacity(n as usize) panics (capacity
\* overflow) when n, a negative i32 cast to u64, exceeds isize::MAX
Skip(s, p, n, eof) ==
    IF n < 0 THEN Res("panic", <<>>, p) ELSE TakeToEnd(s, p, n, eof)

(***************************************************************************)
(* Connection states and the serverbound packets.                          *)
(***************************************************************************)
ConnectionState == {"Handshake", "Status", "Login", "Configuration", "Play"}

\* field types of every serverbound packet, in declaration order
Schema(name) ==
    CASE name = "Handshake"          -> <<"varint", "string", "u16", "varint">>
      [] name = "StatusReq"          -> <<>>
      [] name = "PingReq"            -> <<"i64">>
      [] name = "LoginStart"         -> <<"string">>
      [] name = "EncryptionResponse" -> <<"vec", "vec">>
      [] name = "LoginAck"           -> <<>>
      [] name = "ClientInfo"         -> <<"string", "u8", "varint", "bool",
                                          "u8", "varint", "bool", "bool">>
      [] name = "ConfigurationFinish"    -> <<>>
      [] name = "ConfigurationKeepAlive" -> <<"i64">>
      [] name = "PlayKeepAlive"      -> <<"i64">>
      [] name = "PlayerSession"      -> <<"uuid", "i64", "vec", "vec">>
      [] name = "SetPlayerPosition"  -> <<"f64", "f64", "f64", "bool">>
      [] name = "SetPlayerPositionAndRotation" ->
                               <<"f64", "f64", "f64", "f32", "f32", "bool">>
      [] name = "SetPlayerRotation"  -> <<"f32", "f32", "bool">>
      [] name = "PlayerCommand"      -> <<"varint", "varint", "varint">>
      [] name = "ConfirmTeleportation" -> <<"varint">>

\* the (id, state) table of parse_packet
Dispatch(id, state) ==
    CASE id = 0 /\ state = "Handshake"      -> "Handshake"
      [] id = 0 /\ state = "Status"         -> "StatusReq"
      [] id = 1 /\ state = "Status"         -> "PingReq"
      [] id = 0 /\ state = "Login"          -> "LoginStart"
      [] id = 1 /\ state = "Login"          -> "EncryptionResponse"
      [] id = 3 /\ state = "Login"          -> "LoginAck"
      [] id = 0 /\ state = "Configuration"  -> "ClientInfo"
      [] id = 2 /\ state = "Configuration"  -> "ConfigurationFinish"
      [] id = 3 /\ state = "Configuration"  -> "ConfigurationKeepAlive"
      [] id = 20 /\ state = "Play"          -> "PlayKeepAlive"
      [] id = 6 /\ state = "Play"           -> "PlayerSession"
      [] id = 22 /\ state = "Play"          -> "SetPlayerPosition"
      [] id = 23 /\ state = "Play"          -> "SetPlayerPositionAndRotation"
      [] id = 24 /\ state = "Play"          -> "SetPlayerRotation"
      [] id = 33 /\ state = "Play"          -> "PlayerCommand"
      [] id = 0 /\ state = "Play"           -> "ConfirmTeleportation"
      [] OTHER                              -> "Unknown"

\* result of parsing one frame: st as for the cursor, pkt the packet read
\* ("None" before the dispatch), len the declared length, lenEnd, idEnd and
\* pos the indexes after the length prefix, after the id and after the
\* last byte consumed
Parsed(st, pkt, vals, len, lenEnd, idEnd, pos) ==
    [st |-> st, pkt |-> pkt, vals |-> vals, len |-> len,
     lenEnd |-> lenEnd, idEnd |-> idEnd, pos |-> pos]

\* parse_packet from the id on: cur is what read_from delivers
ParseBody(cur, p, eof, state, len) ==
    With(VarIntRead(cur, p, eof), LAMBDA id :
      IF id.st # "ok" THEN Parsed(id.st, "None", <<>>, len, p, id.pos, id.pos)
      ELSE With(Dispatch(id.val, state), LAMBDA name :
        IF name = "Unknown"
        THEN With(Skip(cur, id.pos, len - VarIntSize(id.val), eof), LAMBDA sk :
               Parsed(IF sk.st = "ok" THEN "err" ELSE sk.st,
                      "Unknown", <<id.val>>, len, p, id.pos, sk.pos))
        ELSE With(ReadFields(Schema(name), cur, id.pos, eof, <<>>), LAMBDA f :
               IF f.st = "ok" /\ name = "LoginStart"
               THEN With(Skip(cur, f.pos, LOGIN_START_TAIL, eof), LAMBDA sk :
                      Parsed(sk.st, name, f.val, len, p, id.pos, sk.pos))
               ELSE Parsed(f.st, name, f.val, len, p, id.pos, f.pos))))

\* the stand-in for the AES-128-CFB8 crypters of openssl (an external
\* library): a byte-wise shift by the key, the first byte of the shared secret
CrypterEncrypt(key, bs) == [i \in 1..Len(bs) |-> (bs[i] + key) % 256]
CrypterDecrypt(key, bs) == [i \in 1..Len(bs) |-> (bs[i] + 256 - key) % 256]

\* parse_packet.  decrypter is <<>> (None) or <<key>> (Some)
ParsePacket(s, eof, state, decrypter) ==
    IF decrypter = <<>>
    THEN With(VarIntRead(s, 1, eof), LAMBDA length :
           IF length.st # "ok"
           THEN Parsed(length.st, "None", <<>>, 0,
                       length.pos, length.pos, length.pos)
           ELSE ParseBody(s, length.pos, eof, state, length.val))
    ELSE With(VarIntRead(CrypterDecrypt(decrypter[1], s), 1, eof), LAMBDA length :
           IF length.st # "ok"
           THEN Parsed(length.st, "None", <<>>, 0,
                       length.pos, length.pos, length.pos)
           ELSE IF length.val < 0
           THEN Parsed("panic", "None", <<>>, length.val,
                       length.pos, length.pos, length.pos)
           ELSE With(ReadExact(s, length.pos, length.val, eof), LAMBDA packet :
                  IF packet.st # "ok"
                  THEN Parsed(packet.st, "None", <<>>, length.val,
                              length.pos, length.pos, packet.pos)
                  ELSE With(ParseBody(CrypterDecrypt(decrypter[1], packet.val),
                                      1, TRUE, state, length.val), LAMBDA b :
                         Parsed(b.st, b.pkt, b.vals, length.val, length.pos,
                                length.pos + (b.idEnd - 1), packet.pos))))

(***************************************************************************)
(* Connection info, errors and the clientbound packets.                    *)
(***************************************************************************)
I64Of(n) == Zeros(7) \o <<n>>
F64Of(n) == <<n>> \o Zeros(7)
F32Of(n) == <<n>> \o Zeros(3)

\* `as f64` of an f32 given by its bytes (zero, normal numbers, infinities):
\* the exponent is re-biased from 127 to 1023 and the 23 mantissa bits
\* become the top bits of the 52
F32AsF64(b) ==
    LET sign == b[1] \div 128
        exp  == (b[1] % 128) * 2 + (b[2] \div 128)
        mant == (b[2] % 128) * 65536 + b[3] * 256 + b[4]
        e64  == IF exp = 0 THEN 0 ELSE IF exp = 255 THEN 2047 ELSE exp + 896
    IN <<sign * 128 + (e64 \div 16),
         (e64 % 16) * 16 + (mant \div Pow2(19)),
         (mant \div Pow2(11)) % 256,
         (mant \div 8) % 256,
         (mant % 8) * 32, 0, 0, 0>>

\* ConnectionInfo::new
NewConnectionInfo ==
    [state |-> "Handshake",
     verify_token |-> <<0, 0, 0, 0>>,
     encrypter |-> <<>>,
     decrypter |-> <<>>,
     username |-> <<>>,
     teleport_id |-> 0,
     keep_alive_id |-> I64Of(0),
     closed |-> FALSE,
     position |-> [x |-> F64Of(0), y |-> F64Of(0), z |-> F64Of(0),
                   pitch |-> F64Of(0), yaw |-> F64Of(0), on_ground |-> FALSE]]

\* ConnectionInfo::close
Close(con) == [con EXCEPT !.closed = TRUE]

\* ProtError::is_fatal
is_fatal(e) ==
    CASE e = "InvalidNextState"    -> TRUE
      [] e = "KeepAliveIdMismatch" -> TRUE
      [] e = "TeleportIdMismatch"  -> TRUE
      [] e = "PositionOutOfBounds" -> TRUE
      [] e = "ChannelClosed"       -> TRUE
      [] e = "Any"                 -> FALSE

Packet(name, arg) == [name |-> name, arg |-> arg]

\* the stand-in for Rsa::private_decrypt with PKCS1 padding (openssl, an
\* external library): a ciphertext is the marker byte 2 and the plaintext
RsaEncrypt(plain) == <<2>> \o plain
RsaDecrypt(c) ==
    IF c # <<>> /\ c[1] = 2 THEN Res("ok", Tail(c), 0) ELSE Res("err", <<>>, 0)

\* a variant whose ranges are -3..3 without the upper end
ChunkColumnsHalfOpen ==
    [n \in 1..((2 * CHUNK_RADIUS) * (2 * CHUNK_RADIUS)) |->
        Packet("ChunkDataAndUpdateLight",
               [x |-> ((n - 1) \div (2 * CHUNK_RADIUS)) - CHUNK_RADIUS,
                z |-> ((n - 1) % (2 * CHUNK_RADIUS)) - CHUNK_RADIUS,
                sections |-> COLUMN_HEIGHT])]

\* the 49 columns of the ConfirmTeleportation handler, i outer, j inner
ChunkColumns ==
    [n \in 1..((2 * CHUNK_RADIUS + 1) * (2 * CHUNK_RADIUS + 1)) |->
        Packet("ChunkDataAndUpdateLight",
               [x |-> ((n - 1) \div (2 * CHUNK_RADIUS + 1)) - CHUNK_RADIUS,
                z |-> ((n - 1) % (2 * CHUNK_RADIUS + 1)) - CHUNK_RADIUS,
                sections |-> COLUMN_HEIGHT])]

Handled(res, out, con) == [res |-> res, out |-> out, con |-> con]

(***************************************************************************)
(* The handlers of packets/server.rs.  this: the fields read, con: the     *)
(* connection info, online: assets.online, rnd: what rand::random and the  *)
(* session server return during this call.  res is "Ok", the error         *)
(* returned, or "panic".                                                   *)
(***************************************************************************)
\* a variant that treats every next_state but 2 as a status request
HandleHandshakeStatusDefault(this, con) ==
    IF this[4] = 2 THEN Handled("Ok", <<>>, [con EXCEPT !.state = "Login"])
    ELSE Handled("Ok", <<>>, [con EXCEPT !.state = "Status"])

HandleHandshake(this, con) ==
    IF this[4] = 1 THEN Handled("Ok", <<>>, [con EXCEPT !.state = "Status"])
    ELSE IF this[4] = 2 THEN Handled("Ok", <<>>, [con EXCEPT !.state = "Login"])
    ELSE Handled("InvalidNextState", <<>>, con)

\* a variant that enters Configuration as soon as the login starts
HandleLoginStartConfigures(this, con, online, rnd) ==
    Handled("Ok", <<Packet("LoginSuccess", this[1])>>,
            [con EXCEPT !.username = this[1], !.verify_token = rnd.token,
                        !.state = "Configuration"])

HandleLoginStart(this, con, online, rnd) ==
    LET c2 == [con EXCEPT !.username = this[1], !.verify_token = rnd.token] IN
    IF online
    THEN Handled("Ok", <<Packet("EncryptionReq", c2.verify_token)>>, c2)
    ELSE Handled("Ok", <<Packet("LoginSuccess", this[1])>>, c2)

HandleEncryptionResponse(this, con, rnd) ==
    With(RsaDecrypt(this[2]), LAMBDA verify_token_plain :
    With(RsaDecrypt(this[1]), LAMBDA shared_secret_plain :
      IF verify_token_plain.st # "ok" THEN Handled("Any", <<>>, con)
      ELSE IF verify_token_plain.val # con.verify_token
           THEN Handled("panic", <<>>, con)
      ELSE IF shared_secret_plain.st # "ok" THEN Handled("Any", <<>>, con)
      ELSE IF Len(shared_secret_plain.val) # 16 THEN Handled("panic", <<>>, con)
      ELSE With([con EXCEPT !.encrypter = <<shared_secret_plain.val[1]>>,
                            !.decrypter = <<shared_secret_plain.val[1]>>],
                LAMBDA c2 :
             IF rnd.session = "ok"
             THEN Handled("Ok", <<Packet("LoginSuccess", con.username)>>, c2)
             ELSE Handled("Any", <<>>, c2))))

\* a variant that accepts every echo
HandleKeepAliveUnchecked(this, con) == Handled("Ok", <<>>, con)

HandleKeepAlive(this, con) ==
    IF this[1] # con.keep_alive_id
    THEN Handled("KeepAliveIdMismatch", <<>>, con)
    ELSE Handled("Ok", <<>>, con)

HandlePlayerSession(this, con, rnd) ==
    LET c2 == [con EXCEPT !.teleport_id = rnd.teleport] IN
    Handled("Ok", <<Packet("SetHeldItem", 0), Packet("UpdateRecipes", <<>>),
                    Packet("SynchronizePlayerPosition", c2.teleport_id)>>, c2)

\* a variant that also resets where the player looks
HandleSetPlayerPositionResetLook(this, con) ==
    Handled("Ok", <<>>,
            [con EXCEPT !.position.x = this[1], !.position.y = this[2],
                        !.position.z = this[3], !.position.on_ground = this[4],
                        !.position.yaw = F64Of(0), !.position.pitch = F64Of(0)])

HandleSetPlayerPosition(this, con) ==
    Handled("Ok", <<>>,
            [con EXCEPT !.position.x = this[1], !.position.y = this[2],
                        !.position.z = this[3], !.position.on_ground = this[4]])

HandleSetPlayerPositionAndRotation(this, con) ==
    Handled("Ok", <<>>,
            [con EXCEPT !.position.x = this[1], !.position.y = this[2],
                        !.position.z = this[3],
                        !.position.pitch = F32AsF64(this[5]),
                        !.position.yaw = F32AsF64(this[4]),
                        !.position.on_ground = this[6]])

HandleSetPlayerRotation(this, con) ==
    Handled("Ok", <<>>,
            [con EXCEPT !.position.pitch = F32AsF64(this[2]),
                        !.position.yaw = F32AsF64(this[1]),
                        !.position.on_ground = this[3]])

\* a variant that answers a wrong teleport id with an error that is not
\* fatal
HandleConfirmTeleportationLenient(this, con) ==
    IF con.teleport_id = this[1]
    THEN Handled("Ok", <<Packet("SetDefaultSpawnPosition", <<0, 0, 0>>),
                         Packet("SetCenterChunk", <<0, 0>>)>> \o ChunkColumns,
                 con)
    ELSE Handled("Any", <<>>, con)

HandleConfirmTeleportation(this, con) ==
    IF con.teleport_id = this[1]
    THEN Handled("Ok", <<Packet("SetDefaultSpawnPosition", <<0, 0, 0>>),
                         Packet("SetCenterChunk", <<0, 0>>)>> \o ChunkColumns,
                 con)
    ELSE Handled("TeleportIdMismatch", <<>>, con)

Handle(pkt, this, con, online, rnd) ==
    CASE pkt = "Handshake" -> HandleHandshake(this, con)
      [] pkt = "StatusReq" -> Handled("Ok", <<Packet("StatusRes", "motd")>>, con)
      [] pkt = "PingReq"   -> Handled("Ok", <<Packet("PingRes", this[1])>>, con)
      [] pkt = "LoginStart" -> HandleLoginStart(this, con, online, rnd)
      [] pkt = "EncryptionResponse" -> HandleEncryptionResponse(this, con, rnd)
      [] pkt = "LoginAck" ->
            Handled("Ok", <<Packet("RegistryData", "registry")>>,
                    [con EXCEPT !.state = "Configuration"])
      [] pkt = "ClientInfo" ->
            Handled("Ok", <<Packet("ConfigurationFinish", <<>>)>>, con)
      [] pkt = "ConfigurationFinish" ->
            Handled("Ok", <<Packet("PlayLogin", <<>>)>>,
                    [con EXCEPT !.state = "Play"])
      [] pkt = "ConfigurationKeepAlive" -> HandleKeepAlive(this, con)
      [] pkt = "PlayKeepAlive" -> HandleKeepAlive(this, con)
      [] pkt = "PlayerSession" -> HandlePlayerSession(this, con, rnd)
      [] pkt = "SetPlayerPosition" -> HandleSetPlayerPosition(this, con)
      [] pkt = "SetPlayerPositionAndRotation" ->
            HandleSetPlayerPositionAndRotation(this, con)
      [] pkt = "SetPlayerRotation" -> HandleSetPlayerRotation(this, con)
      [] pkt = "ConfirmTeleportation" -> HandleConfirmTeleportation(this, con)
      [] pkt = "PlayerCommand" -> Handled("Ok", <<>>, con)

(***************************************************************************)
(* What the peer and the random sources can produce.                       *)
(***************************************************************************)
\* rand::random::<i64>() of the heartbeat
Nonces == {I64Of(n) : n \in 0..MaxNonce}
\* rand::random::<usize>().into() of PlayerSession
TeleportIds == 0..MaxNonce
\* the four rand::random::<u8>() of LoginStart
Tokens == {<<n, n, n, n>> : n \in 1..MaxToken}

SharedSecret == [i \in 1..16 |-> 1]

\* a frame as a client writes it: VarInt length, VarInt id, payload
Frame(id, payload) ==
    VarIntWrite(VarIntSize(id) + Len(payload)) \o VarIntWrite(id) \o payload

SizedVecU8(bs) == VarIntWrite(Len(bs)) \o bs

\* The frames the peer sends in the connection specification: well-formed
\* instances of every serverbound packet and a frame with an unknown id.
\* Every connection gets the frames of the login path (to Login, to
\* Configuration, to Play) and the frames of one group, in any order and
\* in any state.
CoreFrames ==
    {Frame(0, <<252, 5, 0, 99, 221, 2>>), Frame(3, <<>>), Frame(2, <<>>)}

GroupFrames(group) ==
    CASE group = "status" ->
            {Frame(0, <<252, 5, 0, 99, 221, ns>>) : ns \in {0, 1, 3}}
            \cup {Frame(0, <<>>), Frame(1, I64Of(5)), Frame(127, <<7, 7>>)}
      [] group = "login" ->
            {Frame(0, <<1, 65>> \o Zeros(LOGIN_START_TAIL)),
             Frame(1, SizedVecU8(<<>>) \o SizedVecU8(<<>>))}
            \cup {Frame(1, SizedVecU8(RsaEncrypt(SharedSecret))
                           \o SizedVecU8(RsaEncrypt(t))) :
                     t \in Tokens \cup {<<0, 0, 0, 0>>}}
      [] group = "config" ->
            {Frame(0, <<1, 65, 8, 0, 1, 127, 1, 0, 1>>), Frame(33, <<1, 0, 0>>)}
            \cup {Frame(3, k) : k \in Nonces}
            \cup {Frame(20, k) : k \in Nonces}
      [] group = "teleport" ->
            {Frame(6, Zeros(16) \o I64Of(9)
                      \o SizedVecU8(<<>>) \o SizedVecU8(<<>>))}
            \cup {Frame(0, VarIntWrite(t)) : t \in TeleportIds}
      [] group = "move" ->
            {Frame(22, F64Of(1) \o F64Of(2) \o F64Of(3) \o <<1>>),
             Frame(23, F64Of(4) \o F64Of(5) \o F64Of(6)
                       \o F32Of(63) \o F32Of(64) \o <<0>>),
             Frame(24, F32Of(65) \o F32Of(66) \o <<1>>)}

Groups == {"status", "login", "config", "teleport", "move"}

PeerFrames(group) == CoreFrames \cup GroupFrames(group)

\* the stream as the reader sees it: every byte, and whether it is the
\* first byte of a frame the peer sent
Marked(bs) == [i \in 1..Len(bs) |-> [b |-> bs[i], first |-> i = 1]]
Bytes(in) == [i \in 1..Len(in) |-> in[i].b]

\* number of bytes of the frame at the head of the stream
FrameSize(in) ==
    IF \E i \in 2..Len(in) : in[i].first
    THEN (CHOOSE i \in 2..Len(in) :
             in[i].first /\ \A j \in 2..(i - 1) : ~in[j].first) - 1
    ELSE Len(in)

FrameStarts(in) == Cardinality({i \in 1..Len(in) : in[i].first})

(***************************************************************************)
(* State.                                                                  *)
(***************************************************************************)
VARIABLES
    connection,   \* the ConnectionInfo behind the RwLock
    online,       \* assets.online
    group,        \* the group of frames the peer of this connection uses
    inbound,      \* bytes the peer sent and the reader has not consumed
    peerClosed,   \* the peer closed its end: end of stream after inbound
    queue,        \* the mpsc channel of the actor
    rpc,          \* reader task: "loop", "send", "done", "panicked"
    rout,         \* reader task: packets of the handler still to enqueue
    hpc,          \* heartbeat task: "sleep", "tick", "send", "done"
    hmsg,         \* heartbeat task: the keepalive it is about to enqueue
    wpc,          \* writer task: "recv", "done"
    last,         \* history: what the last step did
    hist,         \* history: what was sent and written so far
    section,      \* a ChunkSection of the world
    array,        \* a PackedArray
    wire,         \* a value of the protocol and the bytes written for it
    profile,      \* the build profile: "dev" or "release"
    server        \* the accept loop, the connection handles and the web task

vars == <<connection, online, group, inbound, peerClosed, queue, rpc, rout,
          hpc, hmsg, wpc, last, hist, section, array, wire, profile, server>>

\* the connection actor and its tasks
actorVars == <<connection, online, group, inbound, peerClosed, queue, rpc,
               rout, hpc, hmsg, wpc>>

\* the data structures and the codecs, which no step of the actor touches
dataVars == <<section, array, wire, profile, server>>

\* no section, array or value is under consideration
NoData == <<>>

DataIdle ==
    /\ section = NoData
    /\ array = NoData
    /\ wire = NoData
    /\ server = NoData
    /\ profile = "release"

NoMsg == [kind |-> "None"]

\* a queue message; src, idx and of are history: who enqueued it, and
\* its place idx of `of` in the batch of one handler invocation
SendPacket(packet, src, idx, of) ==
    [kind |-> "SendPacket", packet |-> packet,
     src |-> src, idx |-> idx, of |-> of]

\* last describes the step just taken: kind is "accept" when the reader
\* accepted a frame in it, "written" or "writeError" when the writer
\* handled a message,
\* "keepalive" when the heartbeat enqueued one, and "none" otherwise
NoLast == [kind |-> "none"]

NoHist ==
    [sentKA |-> {},        \* keepalive ids the heartbeat enqueued, kept for
                           \* the peers that echo keepalives
     syncSent |-> FALSE,   \* a SynchronizePlayerPosition was returned
     lastH |-> <<>>,       \* <<idx, of>> of the last handler packet written
     playLogin |-> FALSE,  \* PlayLogin was written to the socket
     loginSuccess |-> FALSE]  \* LoginSuccess was enqueued

Init ==
    /\ connection = NewConnectionInfo
    /\ group \in Groups
    /\ online \in (IF group = "login" THEN BOOLEAN ELSE {FALSE})
    /\ inbound = <<>>
    /\ peerClosed = FALSE
    /\ queue = <<>>
    /\ rpc = "loop"
    /\ rout = <<>>
    /\ hpc = "sleep"
    /\ hmsg = NoMsg
    /\ wpc = "recv"
    /\ last = NoLast
    /\ hist = NoHist
    /\ DataIdle

(***************************************************************************)
(* The peer.  It sends whole frames, encrypted once the server has         *)
(* installed the crypters, and it may close its end at any time.  Nobody   *)
(* but the reader looks at the inbound bytes, and the reader only at the   *)
(* top of its loop: a frame arrives as the reader starts to parse it.      *)
(***************************************************************************)
PeerClose ==
    /\ ~peerClosed
    /\ peerClosed' = TRUE
    /\ last' = NoLast
    /\ UNCHANGED <<connection, online, group, inbound, queue, rpc, rout, hpc,
                   hmsg, wpc, hist>>
    /\ UNCHANGED dataVars

\* what the socket holds once frame f has arrived (<<>>: nothing arrives)
Arrived(in, f, decrypter) ==
    in \o Marked(IF decrypter = <<>> THEN f
                 ELSE CrypterEncrypt(decrypter[1], f))

(***************************************************************************)
(* The reader task: run_packet_handler and accept_packet.                  *)
(***************************************************************************)
\* what rand::random and the session server can return to the handler
RandomInputs(pkt) ==
    [token    : IF pkt = "LoginStart" THEN Tokens ELSE {<<0, 0, 0, 0>>},
     teleport : IF pkt = "PlayerSession" THEN TeleportIds ELSE {0},
     session  : IF pkt = "EncryptionResponse" THEN {"ok", "err"} ELSE {"ok"}]

\* accept_packet up to the handler's return: Err(parse error) becomes
\* ProtError::Any
Accepted(p, con, onl, rnd) ==
    IF p.st = "ok" THEN Handle(p.pkt, p.vals, con, onl, rnd)
    ELSE IF p.st = "panic" THEN Handled("panic", <<>>, con)
    ELSE Handled("Any", <<>>, con)

\* one iteration of the loop of run_packet_handler with bytes to read: the
\* closed check, the peek, parse_packet, the handler, and close() when the
\* error is fatal.  Sending the packets returned follows in ReaderSend.
\* arrivals: the frames that can arrive for this iteration.
ReaderAcceptFrom(arrivals) ==
    /\ rpc = "loop"
    /\ ~connection.closed
    /\ Len(queue) <= MaxBacklog
    /\ \E f \in arrivals :
       /\ f # <<>> => ~peerClosed /\ inbound = <<>>
       /\ \E in \in {Arrived(inbound, f, connection.decrypter)} :
          /\ in # <<>>
          /\ \E p \in {ParsePacket(Bytes(in), peerClosed,
                                   connection.state, connection.decrypter)} :
             /\ p.st # "block"
             /\ \E rnd \in RandomInputs(p.pkt) :
                \E h \in {Accepted(p, connection, online, rnd)} :
                  LET fatal == h.res \notin {"Ok", "panic"} /\ is_fatal(h.res)
                  IN /\ connection' = IF fatal THEN Close(h.con) ELSE h.con
                     /\ rpc' = IF h.res = "panic" THEN "panicked"
                               ELSE IF fatal THEN "done"
                               ELSE IF h.out # <<>> THEN "send" ELSE "loop"
                     /\ rout' = [i \in 1..Len(h.out) |->
                                   SendPacket(h.out[i], "handler", i, Len(h.out))]
                     /\ inbound' = SubSeqFrom(in, p.pos)
                     /\ last' = [kind |-> "accept",
                                 st |-> p.st,
                                 pkt |-> p.pkt,
                                 res |-> h.res,
                                 this |-> p.vals,
                                 aligned |-> in[1].first,
                                 endAligned |-> in[1].first
                                                /\ p.pos - 1 = FrameSize(in),
                                 len |-> p.len,
                                 idLen |-> p.idEnd - p.lenEnd,
                                 body |-> p.pos - p.idEnd,
                                 consumed |-> p.pos - p.lenEnd,
                                 pre |-> connection,
                                 out |-> h.out]
                     /\ hist' = [hist EXCEPT
                                   !.syncSent = @ \/ (p.st = "ok"
                                                      /\ p.pkt = "PlayerSession")]
    /\ UNCHANGED <<online, group, peerClosed, queue, hpc, hmsg, wpc>>
    /\ UNCHANGED dataVars

ReaderAccept == ReaderAcceptFrom(PeerFrames(group) \cup {<<>>})

\* the peek returns Ok(0) or an error: the peer is gone
ReaderEof ==
    /\ rpc = "loop"
    /\ ~connection.closed
    /\ inbound = <<>>
    /\ peerClosed
    /\ connection' = Close(connection)
    /\ rpc' = "done"
    /\ last' = NoLast
    /\ UNCHANGED <<online, group, inbound, peerClosed, queue, rout, hpc, hmsg,
                   wpc, hist>>
    /\ UNCHANGED dataVars

\* a variant of the channel that hands a new message to the receiver first
SendFirst(q, m) == <<m>> \o q

\* Sender::send once a slot is free: the message joins the channel last
Send(q, m) == Append(q, m)

\* sender.send(SendPacket(packet)).await for the next packet returned
ReaderSend ==
    /\ rpc = "send"
    /\ Len(queue) < QUEUE_CAPACITY
    /\ queue' = Send(queue, Head(rout))
    /\ rout' = Tail(rout)
    /\ rpc' = IF Tail(rout) = <<>> THEN "loop" ELSE "send"
    /\ hist' = [hist EXCEPT
                  !.loginSuccess = @ \/ Head(rout).packet.name = "LoginSuccess"]
    /\ last' = NoLast
    /\ UNCHANGED <<connection, online, group, inbound, peerClosed, hpc, hmsg,
                   wpc>>
    /\ UNCHANGED dataVars

(***************************************************************************)
(* The heartbeat task: run_heartbeat.                                      *)
(***************************************************************************)
KeepAlivesQueued ==
    Cardinality({i \in 1..Len(queue) : queue[i].src = "heartbeat"})

\* the sleep ends and the closed flag is read
HeartbeatWake ==
    /\ hpc = "sleep"
    /\ KeepAlivesQueued < MaxKeepAlivesQueued
    /\ hpc' = IF connection.closed THEN "done" ELSE "tick"
    /\ last' = NoLast
    /\ UNCHANGED <<connection, online, group, inbound, peerClosed, queue, rpc,
                   rout, hmsg, wpc, hist>>
    /\ UNCHANGED dataVars

\* the nonce is stored under the write lock, the state read, and the
\* keepalive of that state built
HeartbeatTick ==
    /\ hpc = "tick"
    /\ \E keep_alive_id \in Nonces :
         /\ connection' = [connection EXCEPT !.keep_alive_id = keep_alive_id]
         /\ IF connection.state = "Configuration"
            THEN /\ hmsg' = SendPacket(Packet("ConfigurationKeepAlive", keep_alive_id),
                                       "heartbeat", 0, 0)
                 /\ hpc' = "send"
            ELSE IF connection.state = "Play"
            THEN /\ hmsg' = SendPacket(Packet("PlayKeepAlive", keep_alive_id),
                                       "heartbeat", 0, 0)
                 /\ hpc' = "send"
            ELSE /\ hmsg' = NoMsg
                 /\ hpc' = "done"
    /\ last' = NoLast
    /\ UNCHANGED <<online, group, inbound, peerClosed, queue, rpc, rout, wpc, hist>>
    /\ UNCHANGED dataVars

HeartbeatSend ==
    /\ hpc = "send"
    /\ Len(queue) < QUEUE_CAPACITY
    /\ queue' = Send(queue, hmsg)
    /\ hmsg' = NoMsg
    /\ hpc' = "sleep"
    /\ hist' = [hist EXCEPT
                  !.sentKA = IF group = "config"
                             THEN @ \cup {hmsg.packet.arg} ELSE @]
    /\ last' = [kind |-> "keepalive", packet |-> hmsg.packet]
    /\ UNCHANGED <<connection, online, group, inbound, peerClosed, rpc, rout,
                   wpc>>
    /\ UNCHANGED dataVars

(***************************************************************************)
(* The writer task: run_msg_handler and handle.                            *)
(***************************************************************************)
\* the error handle returns when the socket write fails
WriteError == "Any"

\* a variant of the writer that needs the reader to be out of its sends
\* (as if the reader kept the connection lock while it waits for a slot)
WriterHandleAfterReader ==
    /\ rpc # "send"
    /\ wpc = "recv"
    /\ queue # <<>>
    /\ \E msg \in {Head(queue)} :
       \E wrote \in (IF peerClosed THEN {"ok", "err"} ELSE {"ok"}) :
         LET result == IF wrote = "err" THEN WriteError ELSE "Ok"
             fatal  == result # "Ok" /\ is_fatal(result)
         IN /\ connection' = IF fatal THEN Close(connection) ELSE connection
            /\ wpc' = IF fatal THEN "done" ELSE "recv"
            /\ hist' = [hist EXCEPT
                          !.lastH = IF msg.src = "handler"
                                    THEN <<msg.idx, msg.of>> ELSE @,
                          !.playLogin = @ \/ (wrote = "ok"
                                               /\ msg.packet.name = "PlayLogin")]
            /\ last' = IF wrote = "err"
                       THEN [kind |-> "writeError", msg |-> msg,
                             result |-> result]
                       ELSE [kind |-> "written", msg |-> msg]
    /\ queue' = Tail(queue)
    /\ UNCHANGED <<online, group, inbound, peerClosed, rpc, rout, hpc, hmsg>>
    /\ UNCHANGED dataVars

\* one iteration of run_msg_handler: recv() a message and handle it.  The
\* write to the socket succeeds, or fails once the peer is gone;
\* run_msg_handler closes and stops on a fatal error
WriterHandle ==
    /\ wpc = "recv"
    /\ queue # <<>>
    /\ \E msg \in {Head(queue)} :
       \E wrote \in (IF peerClosed THEN {"ok", "err"} ELSE {"ok"}) :
         LET result == IF wrote = "err" THEN WriteError ELSE "Ok"
             fatal  == result # "Ok" /\ is_fatal(result)
         IN /\ connection' = IF fatal THEN Close(connection) ELSE connection
            /\ wpc' = IF fatal THEN "done" ELSE "recv"
            /\ hist' = [hist EXCEPT
                          !.lastH = IF msg.src = "handler"
                                    THEN <<msg.idx, msg.of>> ELSE @,
                          !.playLogin = @ \/ (wrote = "ok"
                                               /\ msg.packet.name = "PlayLogin")]
            /\ last' = IF wrote = "err"
                       THEN [kind |-> "writeError", msg |-> msg,
                             result |-> result]
                       ELSE [kind |-> "written", msg |-> msg]
    /\ queue' = Tail(queue)
    /\ UNCHANGED <<online, group, inbound, peerClosed, rpc, rout, hpc, hmsg>>
    /\ UNCHANGED dataVars

Next ==
    \/ PeerClose
    \/ ReaderAccept
    \/ ReaderEof
    \/ ReaderSend
    \/ HeartbeatWake
    \/ HeartbeatTick
    \/ HeartbeatSend
    \/ WriterHandle

Spec == Init /\ [][Next]_vars

(***************************************************************************)
(* The connection under a fair scheduler: the tokio runtime runs every     *)
(* task that can take a step.  The peer owes the server nothing: no        *)
(* fairness for the arrival of frames or for the peer's close.             *)
(***************************************************************************)
FairInit == Init /\ group = "status"

FairSpec ==
    /\ FairInit
    /\ [][Next]_vars
    /\ WF_vars(ReaderEof)
    /\ WF_vars(ReaderSend)
    /\ WF_vars(HeartbeatWake)
    /\ WF_vars(HeartbeatTick)
    /\ WF_vars(HeartbeatSend)
    /\ WF_vars(WriterHandle)

(***************************************************************************)
(* Framing.  The socket holds two frames of the peer: the first has any    *)
(* known or unknown id and any payload, with the length prefix that fits   *)
(* it, the second follows it.  The connection is in any state, unencrypted *)
(* (no packet has installed crypters), and its heartbeat has ticked during *)
(* the handshake and ended.                                                *)
(***************************************************************************)
FrameIds == {0, 1, 127}
FrameBytes == {0, 2, 128}

RECURSIVE Payloads(_)
Payloads(n) ==
    IF n = 0 THEN {<<>>}
    ELSE Payloads(n - 1)
         \cup {Append(bs, b) : bs \in {x \in Payloads(n - 1) : Len(x) = n - 1},
                               b \in FrameBytes}

FirstFrames == {Frame(id, bs) : id \in FrameIds, bs \in Payloads(MaxPayload)}
FollowFrames == {Frame(127, <<7, 7>>), Frame(3, <<>>)}

FrameInit ==
    /\ \E st \in ConnectionState :
         connection = [NewConnectionInfo EXCEPT !.state = st]
    /\ group = "status"
    /\ online = FALSE
    /\ \E f1 \in FirstFrames, f2 \in FollowFrames :
         inbound = Marked(f1) \o Marked(f2)
    /\ peerClosed = FALSE
    /\ queue = <<>>
    /\ rpc = "loop"
    /\ rout = <<>>
    /\ hpc = "done"
    /\ hmsg = NoMsg
    /\ wpc = "recv"
    /\ last = NoLast
    /\ hist = NoHist
    /\ DataIdle

\* an iteration of the reader's loop on the bytes the socket holds
ReaderAcceptQueued == ReaderAcceptFrom({<<>>})

FrameNext ==
    \/ PeerClose
    \/ ReaderAcceptQueued
    \/ ReaderEof
    \/ ReaderSend
    \/ WriterHandle

FrameSpec == FrameInit /\ [][FrameNext]_vars

(***************************************************************************)
(* Machine words.  A u64 is the set of the positions of its one bits, so   *)
(* that shifts and masks act on all 64 bits; a usize that indexes is an    *)
(* integer read as two's complement: a negative one stands for a value of  *)
(* 2^63 or more.                                                           *)
(***************************************************************************)
U64Bits == 0..(WORD_BITS - 1)

U64Of(n) == {i \in 0..30 : (n \div Pow2(i)) % 2 = 1}

RECURSIVE NatOf(_)
NatOf(w) ==
    IF w = {} THEN 0
    ELSE With(CHOOSE i \in w : TRUE,
              LAMBDA i : Pow2(i) + NatOf(w \ {i}))

Shl(w, n) == {i + n : i \in w} \cap U64Bits
Shr(w, n) == {i - n : i \in w} \cap U64Bits
BitAnd(a, b) == a \cap b
BitOr(a, b) == a \cup b
BitNot(w) == U64Bits \ w

\* a <= b on u64: equal, or the highest bit they differ in is one of b
U64Leq(a, b) ==
    \/ a = b
    \/ \E i \in b \ a : \A j \in (a \ b) : j < i

\* w - 1 for a w that is not zero
U64Dec(w) ==
    With(CHOOSE i \in w : \A j \in w : i <= j,
         LAMBDA low : (w \ {low}) \cup 0..(low - 1))

\* index < len for a usize index and a length of the model
UsizeLt(index, len) == 0 <= index /\ index < len

\* an i32 as its 32 bits, and back
I32Bits(n) ==
    IF n >= 0 THEN U64Of(n) ELSE U64Of((n + 2147483647) + 1) \cup {31}

I32Of(w) ==
    IF 31 \in w THEN (NatOf(w \ {31}) - 2147483647) - 1 ELSE NatOf(w)

\* a | b on i32
I32Or(a, b) == I32Of(I32Bits(a) \cup I32Bits(b))

\* the outcome of a call that can panic
Ok(v) == [st |-> "ok", val |-> v]
Panicked == [st |-> "panic", val |-> {}]

\* the two build profiles: dev has overflow checks and debug assertions,
\* release has neither
Builds == {"dev", "release"}

(***************************************************************************)
(* PackedArray: [length, bits_per_value, bits], bits the Vec<u64>.         *)
(***************************************************************************)
\* (1 << bits_per_value) - 1 on u64: a shift by 64 overflows, which panics
\* under overflow checks and shifts by 64 mod 64 = 0 without them
mask(this, build) ==
    IF this.bits_per_value >= WORD_BITS
    THEN IF build = "dev" THEN Panicked
         ELSE Ok(U64Dec(Shl(U64Of(1), this.bits_per_value % WORD_BITS)))
    ELSE Ok(U64Dec(Shl(U64Of(1), this.bits_per_value)))

values_per_u64(this) == WORD_BITS \div this.bits_per_value

needed_u64s(this) ==
    (this.length + values_per_u64(this) - 1) \div values_per_u64(this)

\* <<u64_index, bit_index>>
indexes(this, index) ==
    <<index \div values_per_u64(this),
      (index % values_per_u64(this)) * this.bits_per_value>>

PackedArrayNew(length, bits_per_value) ==
    With([length |-> length, bits_per_value |-> bits_per_value, bits |-> <<>>],
         LAMBDA this : [this EXCEPT !.bits = [k \in 1..needed_u64s(this) |-> {}]])

\* get: st is "none" for None
PackedArrayGet(this, index, build) ==
    IF ~UsizeLt(index, this.length) THEN [st |-> "none", val |-> {}]
    ELSE With(mask(this, build), LAMBDA m :
           IF m.st = "panic" THEN Panicked
           ELSE Ok(BitAnd(Shr(this.bits[indexes(this, index)[1] + 1],
                              indexes(this, index)[2]),
                          m.val)))

\* the variant of set that places index at bit offset index * bits_per_value
\* of the array as a whole, across the word boundaries
PackedArraySetDense(this, index, value, build) ==
    IF ~UsizeLt(index, this.length) THEN Panicked
    ELSE With(mask(this, build), LAMBDA m :
           IF m.st = "panic" \/ ~U64Leq(value, m.val) THEN Panicked
           ELSE With(<<(index * this.bits_per_value) \div WORD_BITS,
                       (index * this.bits_per_value) % WORD_BITS>>,
                     LAMBDA ix :
                Ok([this EXCEPT !.bits[ix[1] + 1] =
                      BitOr(BitAnd(@, BitNot(Shl(m.val, ix[2]))),
                            Shl(value, ix[2]))])))

\* set: val is the array after the call
PackedArraySet(this, index, value, build) ==
    IF ~UsizeLt(index, this.length) THEN Panicked
    ELSE With(mask(this, build), LAMBDA m :
           IF m.st = "panic" \/ ~U64Leq(value, m.val) THEN Panicked
           ELSE With(indexes(this, index), LAMBDA ix :
                Ok([this EXCEPT !.bits[ix[1] + 1] =
                      BitOr(BitAnd(@, BitNot(Shl(m.val, ix[2]))),
                            Shl(value, ix[2]))])))

\* iter: the values of every word in turn, the first length of them
PackedArrayIter(this, build) ==
    With(mask(this, build), LAMBDA m :
      IF m.st = "panic" THEN Panicked
      ELSE Ok([j \in 1..this.length |->
                 BitAnd(Shr(this.bits[((j - 1) \div values_per_u64(this)) + 1],
                            ((j - 1) % values_per_u64(this))
                              * this.bits_per_value),
                        m.val)]))

\* the state of the loop of from_iter
FromIterStart ==
    [st |-> "ok", current_u64 |-> {}, current_offset |-> 0, length |-> 0,
     bits |-> <<>>]

\* one iteration of the loop of from_iter; debug_assert!(value < 1 << bits)
\* is compiled in the dev profile only, where the shift by 64 overflows
FromIterStep(s, value, bits_per_value, build) ==
    IF s.st = "panic" THEN s
    ELSE IF build = "dev"
            /\ (\/ bits_per_value >= WORD_BITS
                \/ U64Leq(Shl(U64Of(1), bits_per_value), value))
    THEN [s EXCEPT !.st = "panic"]
    ELSE With(BitOr(s.current_u64, Shl(value, s.current_offset)), LAMBDA cur :
           IF s.current_offset + bits_per_value > WORD_BITS - bits_per_value
           THEN [s EXCEPT !.bits = Append(@, cur), !.current_offset = 0,
                          !.current_u64 = {}, !.length = @ + 1]
           ELSE [s EXCEPT !.current_u64 = cur,
                          !.current_offset = @ + bits_per_value,
                          !.length = @ + 1])

\* the iterations lo..hi of the loop, in order
RECURSIVE FromIterLoop(_, _, _, _, _, _)
FromIterLoop(s, values, lo, hi, bits_per_value, build) ==
    IF lo > hi THEN s
    ELSE IF lo = hi THEN FromIterStep(s, values[lo], bits_per_value, build)
    ELSE With(FromIterLoop(s, values, lo, (lo + hi) \div 2, bits_per_value,
                           build),
              LAMBDA half : FromIterLoop(half, values, ((lo + hi) \div 2) + 1,
                                         hi, bits_per_value, build))

from_iter(values, bits_per_value, build) ==
    IF bits_per_value > WORD_BITS THEN Panicked
    ELSE
    With(FromIterLoop(FromIterStart, values, 1, Len(values), bits_per_value,
                      build),
         LAMBDA s :
           IF s.st = "panic" THEN Panicked
           ELSE Ok([length |-> s.length, bits_per_value |-> bits_per_value,
                    bits |-> IF s.current_offset # 0
                             THEN Append(s.bits, s.current_u64)
                             ELSE s.bits]))

resized(this, new_bits_per_value, build) ==
    With(PackedArrayIter(this, build), LAMBDA it :
      IF it.st = "panic" THEN Panicked
      ELSE from_iter(it.val, new_bits_per_value, build))

max_value(this, build) == mask(this, build)

(***************************************************************************)
(* PaletteKind, PaletteValue, Palette.  A HashMap is a function on its     *)
(* keys; an Option is <<>> for None and <<v>> for Some(v).                 *)
(***************************************************************************)
PaletteKind == {"Blocks", "Biomes"}

Block(value) == [kind |-> "Block", value |-> value]
Biome(value) == [kind |-> "Biome", value |-> value]

SECTION_BLOCKS == SECTION_EDGE * SECTION_EDGE * SECTION_EDGE

int_val(kind, value) == IF kind = "Blocks" THEN Block(value) ELSE Biome(value)

neutral(kind) == IF kind = "Blocks" THEN Block(AIR) ELSE Biome(NEUTRAL_BIOME)

container_length(kind) ==
    IF kind = "Blocks" THEN SECTION_BLOCKS ELSE SECTION_BLOCKS \div 4

min_palette_bits(kind) ==
    IF kind = "Blocks" THEN MIN_PALETTE_BITS_BLOCKS ELSE MIN_PALETTE_BITS_BIOMES

max_palette_bits(kind) ==
    IF kind = "Blocks" THEN MAX_PALETTE_BITS_BLOCKS ELSE MAX_PALETTE_BITS_BIOMES

global_palette_bits(kind) ==
    IF kind = "Blocks" THEN GLOBAL_PALETTE_BITS_BLOCKS
    ELSE GLOBAL_PALETTE_BITS_BIOMES

section_edge(kind) ==
    IF kind = "Blocks" THEN SECTION_EDGE ELSE SECTION_EDGE \div 4

section_blocks(kind) ==
    IF kind = "Blocks" THEN SECTION_BLOCKS ELSE SECTION_BLOCKS \div 4

PaletteNew(kind) ==
    [id_to_state |-> [id \in {0} |-> neutral(kind)],
     state_to_id |-> [state \in {neutral(kind)} |-> 0],
     kind |-> kind]

PaletteLen(this) == Cardinality(DOMAIN this.id_to_state)

\* HashMap::insert
Insert(map, key, value) ==
    [k \in DOMAIN map \cup {key} |-> IF k = key THEN value ELSE map[k]]

\* a variant of index_or_insert that gives every state a new id
IndexOrInsertAlways(this, state) ==
    [id |-> PaletteLen(this),
     palette |-> [this EXCEPT
                    !.id_to_state = Insert(@, PaletteLen(this), state),
                    !.state_to_id = Insert(@, state, PaletteLen(this))]]

\* index_or_insert: the id returned and the palette after the call
IndexOrInsert(this, state) ==
    IF state \in DOMAIN this.state_to_id
    THEN [id |-> this.state_to_id[state], palette |-> this]
    ELSE [id |-> PaletteLen(this),
          palette |-> [this EXCEPT
                         !.id_to_state = Insert(@, PaletteLen(this), state),
                         !.state_to_id = Insert(@, state, PaletteLen(this))]]

PaletteGet(this, id) ==
    IF id \in DOMAIN this.id_to_state THEN this.id_to_state[id]
    ELSE neutral(this.kind)

(***************************************************************************)
(* PalettedContainer: [palette, data, kind].                               *)
(***************************************************************************)
Position(x, y, z) == [x |-> x, y |-> y, z |-> z]

PalettedContainerNew(kind) ==
    [palette |-> <<PaletteNew(kind)>>,
     data |-> PackedArrayNew(container_length(kind), min_palette_bits(kind)),
     kind |-> kind]

\* block_index: the shifts and ors are those of i32, and `as usize` of a
\* negative i32 is a usize of 2^63 or more
block_index(this, position) ==
    IF \/ position.x >= section_edge(this.kind)
       \/ position.y >= section_edge(this.kind)
       \/ position.z >= section_edge(this.kind)
    THEN <<>>
    ELSE IF this.kind = "Blocks"
    THEN <<I32Or(I32Or(position.y * 256, position.z * 16), position.x)>>
    ELSE <<I32Or(I32Or(position.y * 16, position.z * 4), position.x)>>

\* the value of the container at an index of its data
ValueAt(this, index, build) ==
    With(PackedArrayGet(this.data, index, build), LAMBDA got :
      IF got.st # "ok" THEN Panicked
      ELSE IF this.palette # <<>>
      THEN Ok(PaletteGet(this.palette[1], NatOf(got.val)))
      ELSE Ok(int_val(this.kind, NatOf(got.val))))

get_at(this, position, build) ==
    With(block_index(this, position), LAMBDA index :
      IF index = <<>> THEN Ok(neutral(this.kind))
      ELSE ValueAt(this, index[1], build))

\* one iteration of the loop of resize_palette on the data d (an outcome)
RewriteStep(d, palette, i, build) ==
    IF d.st # "ok" THEN d
    ELSE With(PackedArrayGet(d.val, i, build), LAMBDA got :
           IF got.st # "ok" THEN [d EXCEPT !.st = "panic"]
           ELSE With(PackedArraySet(d.val, i,
                                    U64Of(PaletteGet(palette, NatOf(got.val)).value),
                                    build),
                     LAMBDA set : IF set.st = "ok" THEN set
                                  ELSE [d EXCEPT !.st = "panic"]))

\* the iterations lo..hi of the loop, in order
RECURSIVE RewriteLoop(_, _, _, _, _)
RewriteLoop(d, palette, lo, hi, build) ==
    IF lo > hi THEN d
    ELSE IF lo = hi THEN RewriteStep(d, palette, lo, build)
    ELSE With(RewriteLoop(d, palette, lo, (lo + hi) \div 2, build),
              LAMBDA half : RewriteLoop(half, palette, ((lo + hi) \div 2) + 1,
                                        hi, build))

\* a variant of resize_palette that grows the width one value later
ResizePaletteLate(this, build) ==
    IF PaletteLen(this.palette[1]) - 1
         > NatOf(max_value(this.data, build).val) + 1
    THEN [st |-> "ok", direct |-> FALSE,
          val |-> [this EXCEPT
                     !.data = resized(@, @.bits_per_value + 1, build).val]]
    ELSE [st |-> "ok", direct |-> FALSE, val |-> this]

\* a variant of resize_palette that keeps the palette at every width
ResizePaletteIndirect(this, build) ==
    IF PaletteLen(this.palette[1]) - 1 > NatOf(max_value(this.data, build).val)
    THEN [st |-> "ok", direct |-> FALSE,
          val |-> [this EXCEPT
                     !.data = resized(@, @.bits_per_value + 1, build).val]]
    ELSE [st |-> "ok", direct |-> FALSE, val |-> this]

\* resize_palette: direct is the value returned, val the container after
resize_palette(this, build) ==
    IF PaletteLen(this.palette[1]) - 1 > NatOf(max_value(this.data, build).val)
    THEN IF this.data.bits_per_value + 1 > max_palette_bits(this.kind)
         THEN With(RewriteLoop(resized(this.data,
                                       global_palette_bits(this.kind), build),
                               this.palette[1], 0,
                               section_blocks(this.kind) - 1, build),
                   LAMBDA d :
                IF d.st = "ok"
                THEN [st |-> "ok", direct |-> TRUE,
                      val |-> [this EXCEPT !.data = d.val, !.palette = <<>>]]
                ELSE [st |-> "panic", direct |-> FALSE,
                      val |-> [this EXCEPT !.data = d.val]])
         ELSE [st |-> "ok", direct |-> FALSE,
               val |-> [this EXCEPT
                          !.data = resized(@, @.bits_per_value + 1, build).val]]
    ELSE [st |-> "ok", direct |-> FALSE, val |-> this]

\* the end of set_at: self.data.set(index.unwrap(), block)
SetData(this, index, block, build) ==
    With(PackedArraySet(this.data, index, block, build), LAMBDA set :
      IF set.st = "ok"
      THEN [st |-> "ok", val |-> [this EXCEPT !.data = set.val]]
      ELSE [st |-> "panic", val |-> this])

\* set_at: st is "ok", "err" (PositionOutOfBounds) or "panic", val the
\* container after the call, id the palette id of the state (-1: none)
set_at(this, position, block_state, build) ==
    With(block_index(this, position), LAMBDA index :
      IF index = <<>> THEN [st |-> "err", val |-> this, id |-> -1]
      ELSE IF this.palette # <<>>
      THEN With(IndexOrInsert(this.palette[1], block_state), LAMBDA ins :
             With(resize_palette([this EXCEPT !.palette = <<ins.palette>>],
                                 build),
                  LAMBDA grown :
               IF grown.st = "panic"
               THEN [st |-> "panic", val |-> grown.val, id |-> ins.id]
               ELSE With(SetData(grown.val, index[1],
                                 IF grown.direct THEN U64Of(block_state.value)
                                 ELSE U64Of(ins.id),
                                 build),
                         LAMBDA set : [st |-> set.st, val |-> set.val,
                                       id |-> ins.id])))
      ELSE With(SetData(this, index[1], U64Of(block_state.value), build),
                LAMBDA set : [st |-> set.st, val |-> set.val, id |-> -1]))

(***************************************************************************)
(* ChunkSection: [air_count, blocks, biomes].                              *)
(***************************************************************************)
ChunkSectionNew ==
    [air_count |-> SECTION_BLOCKS,
     blocks |-> PalettedContainerNew("Blocks"),
     biomes |-> PalettedContainerNew("Biomes")]

\* block: st is "panic" when get_at panics
block(this, position, build) ==
    With(get_at(this.blocks, position, build), LAMBDA got :
      IF got.st # "ok" THEN Panicked
      ELSE Ok(IF got.val.kind = "Block" THEN got.val.value ELSE AIR))

\* air_count -= 1 and += 1 on u16
U16Add(n, d, build) ==
    IF n + d \in 0..65535 THEN Ok(n + d)
    ELSE IF build = "dev" THEN Panicked
    ELSE Ok((n + d + 65536) % 65536)

\* a variant of update_air_at that counts every write of a non-air state
UpdateAirAtEveryWrite(this, position, new, build) ==
    IF new # AIR
    THEN [st |-> "ok", val |-> [this EXCEPT !.air_count = @ - 1]]
    ELSE [st |-> "ok", val |-> this]

update_air_at(this, position, new, build) ==
    With(block(this, position, build), LAMBDA old :
      IF old.st # "ok" THEN [st |-> "panic", val |-> this]
      ELSE IF old.val = AIR /\ new # AIR
      THEN With(U16Add(this.air_count, -1, build), LAMBDA n :
             [st |-> n.st,
              val |-> IF n.st = "ok" THEN [this EXCEPT !.air_count = n.val]
                      ELSE this])
      ELSE IF old.val # AIR /\ new = AIR
      THEN With(U16Add(this.air_count, 1, build), LAMBDA n :
             [st |-> n.st,
              val |-> IF n.st = "ok" THEN [this EXCEPT !.air_count = n.val]
                      ELSE this])
      ELSE [st |-> "ok", val |-> this])

\* set_block: update_air_at, then blocks.set_at(position, Block(state))?;
\* at says that set_at was called
set_block(this, position, state, build) ==
    With(update_air_at(this, position, state, build), LAMBDA upd :
      IF upd.st # "ok"
      THEN [st |-> "panic", val |-> upd.val, id |-> -1, at |-> FALSE]
      ELSE With(set_at(upd.val.blocks, position, Block(state), build),
                LAMBDA set :
             [st |-> set.st, val |-> [upd.val EXCEPT !.blocks = set.val],
              id |-> set.id, at |-> TRUE]))

set_biome(this, position, biome, build) ==
    With(set_at(this.biomes, position, Biome(biome), build), LAMBDA set :
      [st |-> set.st, val |-> [this EXCEPT !.biomes = set.val], id |-> set.id,
       at |-> TRUE])

(***************************************************************************)
(* A chunk section in use.  It starts as one of the sections the program   *)
(* builds: a new one, one filled with a single state (World::new_grass),   *)
(* or one that holds a different state at each of its first positions, as  *)
(* many as bring its palette to the brink of the next width.  A behaviour  *)
(* then works on one of the two containers, with positions inside and      *)
(* outside the section and states inside and outside the palette, in the   *)
(* dev profile (the release profile differs where an addition overflows,   *)
(* which takes more calls than a behaviour has).  hist is the plain array  *)
(* of the spec, by the index of the spec ((y<<8)|(z<<4)|x for blocks,      *)
(* (y<<4)|(z<<2)|x for biomes): every index holds hist.base, the first     *)
(* hist.prefill indices hold PrefillState of the index, and hist.shadow    *)
(* holds the state last set at each index that was set since; hist.failed  *)
(* says that a call did not return Ok, hist.outside counts the calls with  *)
(* a position outside the section.                                         *)
(***************************************************************************)
GRASS == 9

\* the states of the sections that hold a different state at each position
PrefillState(k) == 2 * k + 1

\* states that no such section holds: the highest even global ids
FreshStates(kind) ==
    {Pow2(global_palette_bits(kind)) - 2 * k : k \in 1..MaxFresh}

\* the position of index i
PositionAt(kind, i) ==
    With(section_edge(kind), LAMBDA edge :
      Position(i % edge, i \div (edge * edge), (i \div edge) % edge))

\* the index of a position of the section
IndexOf(kind, position) ==
    With(section_edge(kind), LAMBDA edge :
      position.y * edge * edge + position.z * edge + position.x)

InSection(kind, position) ==
    /\ position.x \in 0..(section_edge(kind) - 1)
    /\ position.y \in 0..(section_edge(kind) - 1)
    /\ position.z \in 0..(section_edge(kind) - 1)

\* set_block or set_biome, by the kind of the container
SetValue(this, kind, position, value, build) ==
    IF kind = "Blocks" THEN set_block(this, position, value, build)
    ELSE set_biome(this, position, value, build)

\* for i in lo..hi { set(PositionAt(i), state or PrefillState(i)) }
RECURSIVE SetLoop(_, _, _, _, _)
SetLoop(this, kind, lo, hi, state) ==
    IF lo > hi THEN this
    ELSE IF lo = hi
    THEN SetValue(this, kind, PositionAt(kind, lo),
                  IF state < 0 THEN PrefillState(lo) ELSE state, "dev").val
    ELSE With(SetLoop(this, kind, lo, (lo + hi) \div 2, state),
              LAMBDA half : SetLoop(half, kind, ((lo + hi) \div 2) + 1, hi,
                                    state))

\* ChunkSection::fill
fill(this, state) == SetLoop(this, "Blocks", 0, SECTION_BLOCKS - 1, state)

\* the numbers of different states that fill the palette of the narrowest
\* and of the widest indirect width
Brinks(kind) ==
    {Pow2(min_palette_bits(kind)) - 1, Pow2(max_palette_bits(kind)) - 1}

Start(this, kind, base, prefill) ==
    [section |-> this, kind |-> kind, base |-> base, prefill |-> prefill]

Starts(kind) ==
    {Start(ChunkSectionNew, kind, neutral(kind).value, 0)}
    \cup {Start(SetLoop(ChunkSectionNew, kind, 0, n - 1, -1), kind,
                neutral(kind).value, n) : n \in Brinks(kind)}
    \cup IF kind = "Blocks"
         THEN {Start(fill(ChunkSectionNew, GRASS), kind, GRASS, 0)}
         ELSE {}

ChunkInit ==
    /\ connection = NewConnectionInfo
    /\ group = "status"
    /\ online = FALSE
    /\ inbound = <<>>
    /\ peerClosed = FALSE
    /\ queue = <<>>
    /\ rpc = "loop"
    /\ rout = <<>>
    /\ hpc = "sleep"
    /\ hmsg = NoMsg
    /\ wpc = "recv"
    /\ array = NoData
    /\ wire = NoData
    /\ server = NoData
    /\ last = NoLast
    /\ profile = "dev"
    /\ \E kind \in PaletteKind : \E s \in Starts(kind) :
         /\ section = s.section
         /\ hist = [kind |-> s.kind, base |-> s.base, prefill |-> s.prefill,
                    shadow |-> <<>>, failed |-> FALSE, outside |-> 0]

\* the positions callers pass: inside the section, beyond its edge, negative
Positions(kind) ==
    {Position(section_edge(kind) - 1, section_edge(kind) - 1,
              section_edge(kind) - 1),
     Position(section_edge(kind), 0, 0),
     Position(0, -1, 0)}

\* the states callers pass
States(kind) ==
    {neutral(kind).value, GRASS} \cup FreshStates(kind)

\* the container of a section that a behaviour works on
Container(this, kind) == IF kind = "Blocks" THEN this.blocks ELSE this.biomes

\* section.set_block(position, state) or section.set_biome(position, biome).
\* last.state is the state index_or_insert was called with (-1: it was not
\* called), last.id the id it returned, last.at that set_at was called,
\* last.same that the call left the container as it was
Set(kind, position, value) ==
    /\ hist.kind = kind
    /\ InSection(kind, position) \/ hist.outside < MaxOutside
    /\ \E r \in {SetValue(section, kind, position, value, profile)} :
         /\ section' = r.val
         /\ last' = [kind |-> "set", st |-> r.st, id |-> r.id, at |-> r.at,
                     state |-> IF r.id >= 0 THEN value ELSE -1,
                     inside |-> InSection(kind, position),
                     same |-> Container(r.val, kind)
                                = Container(section, kind)]
         /\ hist' = [hist EXCEPT
                       !.shadow = IF r.st = "ok"
                                  THEN Insert(@, IndexOf(kind, position), value)
                                  ELSE @,
                       !.failed = @ \/ r.st # "ok",
                       !.outside = IF InSection(kind, position) THEN @
                                   ELSE @ + 1]
    /\ UNCHANGED <<actorVars, array, wire, profile, server>>

SetBlock ==
    \E position \in Positions("Blocks"), state \in States("Blocks") :
      Set("Blocks", position, state)

SetBiome ==
    \E position \in Positions("Biomes"), biome \in States("Biomes") :
      Set("Biomes", position, biome)

\* [(v >> 8) as u8, v as u8]
u16tou8abe(v) == [k \in 1..2 |-> (v \div Pow2(8 * (2 - k))) % 256]

u64tou8abe(v) == [k \in 1..8 |-> NatOf(BitAnd(Shr(v, 8 * (8 - k)), 0..7))]

(***************************************************************************)
(* The section on the wire.                                                *)
(***************************************************************************)
\* the words of a packed array from lo to hi, eight bytes each
RECURSIVE WordsWrite(_, _, _)
WordsWrite(bits, lo, hi) ==
    IF lo > hi THEN <<>>
    ELSE IF lo = hi THEN u64tou8abe(bits[lo])
    ELSE WordsWrite(bits, lo, (lo + hi) \div 2)
         \o WordsWrite(bits, (lo + hi) \div 2 + 1, hi)

\* PackedArray::write: needed_u64s as VarInt, then every word of bits
PackedArrayWrite(this) ==
    VarIntWrite(needed_u64s(this)) \o WordsWrite(this.bits, 1, Len(this.bits))

\* the order in which a HashMap of ids is iterated is not specified: the
\* ids upward and the ids downward stand for the orders
Orders(n) ==
    {[k \in 1..n |-> k - 1], [k \in 1..n |-> n - k]}

\* the states of the places lo to hi of the order, each as VarInt
RECURSIVE StatesWrite(_, _, _, _)
StatesWrite(this, order, lo, hi) ==
    IF lo > hi THEN <<>>
    ELSE IF lo = hi THEN VarIntWrite(this.id_to_state[order[lo]].value)
    ELSE StatesWrite(this, order, lo, (lo + hi) \div 2)
         \o StatesWrite(this, order, (lo + hi) \div 2 + 1, hi)

\* Palette::write: len as VarInt, then every state in the order of iteration
PaletteWrite(this, order) ==
    VarIntWrite(PaletteLen(this)) \o StatesWrite(this, order, 1, Len(order))

\* PalettedContainer::write
PalettedContainerWrite(this, order) ==
    (IF this.palette # <<>> /\ PaletteLen(this.palette[1]) = 1
     THEN <<0>> \o VarIntWrite(this.palette[1].id_to_state[0].value)
     ELSE <<this.data.bits_per_value % 256>>
          \o (IF this.palette # <<>> THEN PaletteWrite(this.palette[1], order)
              ELSE <<>>))
    \o PackedArrayWrite(this.data)

\* the orders of iteration of the palette of a container
ContainerOrders(this) ==
    IF this.palette # <<>> THEN Orders(PaletteLen(this.palette[1]))
    ELSE {<<>>}

\* ChunkSection::write: the count of blocks that are not air as u16, the
\* blocks, the biomes
ChunkSectionWrite(this, blockOrder, biomeOrder, build) ==
    With(U16Add(SECTION_BLOCKS, -this.air_count, build), LAMBDA count :
      IF count.st # "ok" THEN Panicked
      ELSE Ok(u16tou8abe(count.val)
              \o PalettedContainerWrite(this.blocks, blockOrder)
              \o PalettedContainerWrite(this.biomes, biomeOrder)))

\* section.write(stream) on a stream of the caller's: last.bytes is what the
\* stream was given, last.blocks and last.biomes the bytes of the two
\* containers; index_or_insert and set_at are not called
SectionWrite ==
    /\ \E blockOrder \in ContainerOrders(section.blocks),
          biomeOrder \in ContainerOrders(section.biomes) :
         \E r \in {ChunkSectionWrite(section, blockOrder, biomeOrder,
                                     profile)} :
           last' = [kind |-> "write", st |-> r.st, id |-> -1, state |-> -1,
                    at |-> FALSE,
                    bytes |-> IF r.st = "ok" THEN r.val ELSE <<>>,
                    blocks |-> PalettedContainerWrite(section.blocks,
                                                      blockOrder),
                    biomes |-> PalettedContainerWrite(section.biomes,
                                                      biomeOrder)]
    /\ UNCHANGED <<actorVars, section, array, wire, profile, hist, server>>

ChunkNext ==
    \/ SetBlock
    \/ SetBiome
    \/ SectionWrite

ChunkSpec == ChunkInit /\ [][ChunkNext]_vars

(***************************************************************************)
(* A packed array in use, of any width from 1 to 64 bits and long enough   *)
(* to spill into a second word, under either build profile.  Callers set  *)
(* values that fit the width at indices below the length, and resize the   *)
(* array to a width that is not narrower.  hist.values is the plain array: *)
(* the value last set at each index.                                       *)
(***************************************************************************)
\* the widths the spec gives a packed array
Widths == 1..WORD_BITS

\* the values of b bits callers set: 0, 1, the highest bit, all bits
ValuesOf(b) == {{}, {0}, {b - 1}, 0..(b - 1)}

ArrayInit ==
    /\ connection = NewConnectionInfo
    /\ group = "status"
    /\ online = FALSE
    /\ inbound = <<>>
    /\ peerClosed = FALSE
    /\ queue = <<>>
    /\ rpc = "loop"
    /\ rout = <<>>
    /\ hpc = "sleep"
    /\ hmsg = NoMsg
    /\ wpc = "recv"
    /\ section = NoData
    /\ wire = NoData
    /\ server = NoData
    /\ last = NoLast
    /\ profile \in Builds
    /\ \E b \in Widths :
         /\ array = PackedArrayNew((WORD_BITS \div b) + MaxSpill, b)
         /\ hist = [values |-> [i \in 0..((WORD_BITS \div b) + MaxSpill - 1)
                                  |-> {}],
                    resizes |-> 0]

\* the indices callers pass: the first, the last of the first word, the last
Indices(this) == {0, values_per_u64(this) - 1, this.length - 1}

\* array.set(index, value)
ArraySet ==
    \E index \in Indices(array), value \in ValuesOf(array.bits_per_value) :
      \E r \in {PackedArraySet(array, index, value, profile)} :
        /\ array' = IF r.st = "ok" THEN r.val ELSE array
        /\ last' = [kind |-> "set", st |-> r.st, index |-> index,
                    value |-> value]
        /\ hist' = IF r.st = "ok" THEN [hist EXCEPT !.values[index] = value]
                   ELSE hist
        /\ UNCHANGED <<actorVars, section, wire, profile, server>>

\* array = array.resized(new_bits_per_value), to the next width or to 64
ArrayResized ==
    /\ hist.resizes < MaxResizes
    /\ \E new_bits_per_value \in
            {array.bits_per_value + 1, WORD_BITS}
            \cap array.bits_per_value..WORD_BITS :
         \E r \in {resized(array, new_bits_per_value, profile)} :
           /\ array' = IF r.st = "ok" THEN r.val ELSE array
           /\ last' = [kind |-> "resized", st |-> r.st,
                       index |-> new_bits_per_value, value |-> {}]
           /\ hist' = [hist EXCEPT !.resizes = @ + 1]
           /\ UNCHANGED <<actorVars, section, wire, profile, server>>

ArrayNext ==
    \/ ArraySet
    \/ ArrayResized

ArraySpec == ArrayInit /\ [][ArrayNext]_vars

(***************************************************************************)
(* VarLong.  The value is a signed 64-bit integer, kept as the word of its *)
(* two's-complement bits.                                                  *)
(***************************************************************************)
RECURSIVE VarLongReadLoop(_, _, _, _, _)
VarLongReadLoop(s, p, eof, result, num_read) ==
    With(ReadExact(s, p, 1, eof), LAMBDA r :
      IF r.st # "ok" THEN Res(r.st, {}, r.pos)
      ELSE With(BitOr(result,
                      Shl(U64Of(r.val[1] % CONTINUE_BIT),
                          (7 * num_read) % WORD_BITS)),
                LAMBDA result2 :
             IF num_read + 1 > 10 THEN Res("err", {}, p + 1)
             ELSE IF r.val[1] < CONTINUE_BIT THEN Res("ok", result2, p + 1)
                  ELSE VarLongReadLoop(s, p + 1, eof, result2, num_read + 1)))

VarLongRead(s, p, eof) == VarLongReadLoop(s, p, eof, {}, 0)

RECURSIVE VarLongSizeLoop(_, _)
VarLongSizeLoop(x, count) ==
    IF x = {} THEN count ELSE VarLongSizeLoop(Shr(x, 7), count + 1)

\* prot_size: x >>= 7, count += 1, until x = 0
VarLongSize(v) == VarLongSizeLoop(Shr(v, 7), 1)

RECURSIVE VarLongWriteLoop(_)
VarLongWriteLoop(x) ==
    With(NatOf(BitAnd(x, U64Of(SEGMENT_BITS))), LAMBDA temp :
      IF Shr(x, 7) = {} THEN <<temp>>
      ELSE <<temp + CONTINUE_BIT>> \o VarLongWriteLoop(Shr(x, 7)))

VarLongWrite(v) == VarLongWriteLoop(v)

(***************************************************************************)
(* i64: eight bytes, the most significant first.                           *)
(***************************************************************************)
I64Read(s, p, eof) ==
    With(ReadExact(s, p, 8, eof), LAMBDA r :
      IF r.st # "ok" THEN Res(r.st, {}, r.pos)
      ELSE Res("ok",
               UNION {Shl(U64Of(r.val[k]), 8 * (8 - k)) : k \in 1..8},
               r.pos))

(***************************************************************************)
(* Position: one i64, x in the high 26 bits, z in the middle 26 bits and   *)
(* y in the low 12 bits.                                                   *)
(***************************************************************************)
\* w >> n on i64: the sign bit fills the places left free
Sar(w, n) ==
    Shr(w, n) \cup (IF 63 \in w THEN (WORD_BITS - n)..63 ELSE {})

\* the layout with y in the middle and z in the low bits
PositionWordYZ(this) ==
    BitOr(BitOr(Shl(BitAnd(I32Bits(this.x), 0..25), 38),
                Shl(BitAnd(I32Bits(this.y), 0..11), 26)),
          BitAnd(I32Bits(this.z), 0..25))

\* ((x & 0x3FFFFFF) as i64) << 38 | ((z & 0x3FFFFFF) as i64) << 12
\*   | (y as i64 & 0xFFF)
PositionWord(this) ==
    BitOr(BitOr(Shl(BitAnd(I32Bits(this.x), 0..25), 38),
                Shl(BitAnd(I32Bits(this.z), 0..25), 12)),
          BitAnd(I32Bits(this.y), 0..11))

PositionWrite(this) == u64tou8abe(PositionWord(this))

\* x: (int >> 38) as i32, z: (int << 26 >> 38) as i32,
\* y: (int << 52 >> 52) as i32
PositionRead(s, p, eof) ==
    With(I64Read(s, p, eof), LAMBDA int :
      IF int.st # "ok" THEN Res(int.st, Position(0, 0, 0), int.pos)
      ELSE Res("ok",
               Position(I32Of(BitAnd(Sar(int.val, 38), 0..31)),
                        I32Of(BitAnd(Sar(Shl(int.val, 52), 52), 0..31)),
                        I32Of(BitAnd(Sar(Shl(int.val, 26), 38), 0..31))),
               int.pos))

(***************************************************************************)
(* The element types of the model: u8 (a number), i64 and VarLong (words), *)
(* VarInt (a number).                                                      *)
(***************************************************************************)
WriteProt(ty, v) ==
    CASE ty = "u8"      -> <<v>>
      [] ty = "i64"     -> u64tou8abe(v)
      [] ty = "VarInt"  -> VarIntWrite(v)
      [] ty = "VarLong" -> VarLongWrite(v)
      [] ty = "Position" -> PositionWrite(v)

ReadProt(ty, s, p, eof) ==
    CASE ty = "u8"      -> With(ReadExact(s, p, 1, eof), LAMBDA r :
                             IF r.st # "ok" THEN Res(r.st, 0, r.pos)
                             ELSE Res("ok", r.val[1], r.pos))
      [] ty = "i64"     -> I64Read(s, p, eof)
      [] ty = "VarInt"  -> VarIntRead(s, p, eof)
      [] ty = "VarLong" -> VarLongRead(s, p, eof)
      [] ty = "Position" -> PositionRead(s, p, eof)

SizedProt(ty, v) ==
    CASE ty = "u8"      -> 1
      [] ty = "i64"     -> 8
      [] ty = "VarInt"  -> VarIntSize(v)
      [] ty = "VarLong" -> VarLongSize(v)
      [] ty = "Position" -> 8

(***************************************************************************)
(* SizedVec<T>.                                                            *)
(***************************************************************************)
RECURSIVE SizedVecWriteItems(_, _)
SizedVecWriteItems(ty, vec) ==
    IF vec = <<>> THEN <<>>
    ELSE WriteProt(ty, Head(vec)) \o SizedVecWriteItems(ty, Tail(vec))

SizedVecWrite(ty, vec) == VarIntWrite(Len(vec)) \o SizedVecWriteItems(ty, vec)

\* loop { if bytes_so_far == len { break; } buf.push(T::read(stream)?);
\*        bytes_so_far += buf.last().unwrap().prot_size(); }
\* len is the count as usize: a negative count is never reached
RECURSIVE SizedVecReadLoop(_, _, _, _, _, _, _)
SizedVecReadLoop(ty, s, p, eof, len, bytes_so_far, buf) ==
    IF bytes_so_far = len THEN Res("ok", buf, p)
    ELSE With(ReadProt(ty, s, p, eof), LAMBDA r :
           IF r.st # "ok" THEN Res(r.st, <<>>, r.pos)
           ELSE SizedVecReadLoop(ty, s, r.pos, eof, len,
                                 bytes_so_far + SizedProt(ty, r.val),
                                 Append(buf, r.val)))

SizedVecRead(ty, s, p, eof) ==
    With(VarIntRead(s, p, eof), LAMBDA len :
      IF len.st # "ok" THEN Res(len.st, <<>>, len.pos)
      ELSE SizedVecReadLoop(ty, s, len.pos, eof, len.val, 0, <<>>))

RECURSIVE SizedVecSizeItems(_, _)
SizedVecSizeItems(ty, vec) ==
    IF vec = <<>> THEN 0
    ELSE SizedProt(ty, Head(vec)) + SizedVecSizeItems(ty, Tail(vec))

SizedVecSize(ty, vec) == VarIntSize(Len(vec)) + SizedVecSizeItems(ty, vec)

(***************************************************************************)
(* Clientbound packets.  A type is [k, of]: k names the type and `of` is   *)
(* the sequence of the types it is made of (the element of a SizedVec, the *)
(* content of an Option, the fields of a struct).  A value of a SizedVec   *)
(* or of a struct is a sequence, of an Option <<>> for None and <<v>> for  *)
(* Some(v).  A String, a Chat (its JSON text) and an NbtCompound are the   *)
(* bytes they are written as; async_nbt's size() is taken to be the number *)
(* of bytes its write_nbt writes.  A float is its bits.                    *)
(***************************************************************************)
Leaf(k) == [k |-> k, of |-> <<>>]
Vec(t) == [k |-> "SizedVec", of |-> <<t>>]
Opt(t) == [k |-> "Option", of |-> <<t>>]
Struct(ts) == [k |-> "struct", of |-> ts]

Slot ==
    Struct(<<Leaf("bool"), Opt(Leaf("VarInt")), Opt(Leaf("u8")),
             Opt(Leaf("Nbt"))>>)

RecipeIngredient == Vec(Slot)

RecipeKinds ==
    {"CraftingShapeless", "CraftingShaped", "CraftingSpecial", "Smelting",
     "Stonecutting", "SmithingTransform", "SmithingTrim"}

\* typ, id and the fields of the kind, in the order of write
RecipeFields(kind) ==
    <<Leaf("String"), Leaf("String")>> \o
    CASE kind = "CraftingShapeless" ->
           <<Leaf("String"), Leaf("VarInt"), Vec(RecipeIngredient), Slot>>
      [] kind = "CraftingShaped" ->
           <<Leaf("VarInt"), Leaf("VarInt"), Leaf("String"), Leaf("VarInt"),
             Vec(RecipeIngredient), Slot, Leaf("bool")>>
      [] kind = "CraftingSpecial" -> <<Leaf("VarInt")>>
      [] kind = "Smelting" ->
           <<Leaf("String"), Leaf("VarInt"), RecipeIngredient, Slot,
             Leaf("f32"), Leaf("VarInt")>>
      [] kind = "Stonecutting" ->
           <<Leaf("String"), RecipeIngredient, Slot>>
      [] kind = "SmithingTransform" ->
           <<RecipeIngredient, RecipeIngredient, RecipeIngredient, Slot>>
      [] kind = "SmithingTrim" ->
           <<RecipeIngredient, RecipeIngredient, RecipeIngredient>>

Tag == Struct(<<Leaf("String"), Vec(Leaf("VarInt"))>>)
TagGroup == Struct(<<Leaf("String"), Vec(Tag)>>)
BitSet == Struct(<<Vec(Leaf("i64"))>>)
BlockEntity ==
    Struct(<<Leaf("u8"), Leaf("i16"), Leaf("VarInt"), Leaf("Nbt")>>)

ClientPacketNames ==
    {"StatusRes", "PingRes", "EncryptionReq", "LoginSuccess",
     "ConfigurationKeepAlive", "ConfigurationFinish", "RegistryData",
     "PlayLogin", "PlayKeepAlive", "SetHeldItem", "UpdateRecipes",
     "UpdateTags", "SynchronizePlayerPosition", "ChunkDataAndUpdateLight",
     "SetCenterChunk", "SetDefaultSpawnPosition", "DisguisedChatMessage",
     "SendGameEvent", "BlockUpdate"}

\* fn id() -> u8
ClientPacketId(name) ==
    CASE name = "StatusRes" -> 0
      [] name = "PingRes" -> 1
      [] name = "EncryptionReq" -> 1
      [] name = "LoginSuccess" -> 2
      [] name = "ConfigurationKeepAlive" -> 3
      [] name = "ConfigurationFinish" -> 2
      [] name = "RegistryData" -> 5
      [] name = "PlayLogin" -> 41
      [] name = "PlayKeepAlive" -> 36
      [] name = "SetHeldItem" -> 79
      [] name = "UpdateRecipes" -> 111
      [] name = "UpdateTags" -> 112
      [] name = "SynchronizePlayerPosition" -> 62
      [] name = "ChunkDataAndUpdateLight" -> 37
      [] name = "SetCenterChunk" -> 80
      [] name = "SetDefaultSpawnPosition" -> 82
      [] name = "DisguisedChatMessage" -> 28
      [] name = "SendGameEvent" -> 32
      [] name = "BlockUpdate" -> 9

\* the fields of the packet! declarations, in order
ClientPacketFields(name) ==
    CASE name = "StatusRes" -> <<Leaf("String")>>
      [] name = "PingRes" -> <<Leaf("i64")>>
      [] name = "EncryptionReq" ->
           <<Leaf("String"), Vec(Leaf("u8")), Vec(Leaf("u8"))>>
      [] name = "LoginSuccess" ->
           <<Leaf("Uuid"), Leaf("String"), Leaf("VarInt")>>
      [] name = "ConfigurationKeepAlive" -> <<Leaf("i64")>>
      [] name = "ConfigurationFinish" -> <<>>
      [] name = "RegistryData" -> <<Leaf("Nbt")>>
      [] name = "PlayLogin" ->
           <<Leaf("i32"), Leaf("bool"), Vec(Leaf("String")), Leaf("VarInt"),
             Leaf("VarInt"), Leaf("VarInt"), Leaf("bool"), Leaf("bool"),
             Leaf("bool"), Leaf("String"), Leaf("String"), Leaf("i64"),
             Leaf("u8"), Leaf("u8"), Leaf("bool"), Leaf("bool"),
             Leaf("bool"), Opt(Leaf("String")), Opt(Leaf("Position")),
             Leaf("VarInt")>>
      [] name = "PlayKeepAlive" -> <<Leaf("i64")>>
      [] name = "SetHeldItem" -> <<Leaf("u8")>>
      [] name = "UpdateRecipes" -> <<Vec(Leaf("Recipe"))>>
      [] name = "UpdateTags" -> <<Vec(TagGroup)>>
      [] name = "SynchronizePlayerPosition" ->
           <<Leaf("f64"), Leaf("f64"), Leaf("f64"), Leaf("f32"),
             Leaf("f32"), Leaf("u8"), Leaf("VarInt")>>
      [] name = "ChunkDataAndUpdateLight" ->
           <<Leaf("i32"), Leaf("i32"), Leaf("Nbt"), Vec(Leaf("u8")),
             Vec(BlockEntity), BitSet, BitSet, BitSet, BitSet,
             Vec(Vec(Leaf("u8"))), Vec(Vec(Leaf("u8")))>>
      [] name = "SetCenterChunk" -> <<Leaf("VarInt"), Leaf("VarInt")>>
      [] name = "SetDefaultSpawnPosition" ->
           <<Leaf("Position"), Leaf("f32")>>
      [] name = "DisguisedChatMessage" ->
           <<Leaf("Chat"), Leaf("VarInt"), Leaf("Chat"), Leaf("bool"),
             Opt(Leaf("Chat"))>>
      [] name = "SendGameEvent" -> <<Leaf("GameEvent")>>
      [] name = "BlockUpdate" -> <<Leaf("Position"), Leaf("VarInt")>>

\* [(v >> 24) as u8, (v >> 16) as u8, (v >> 8) as u8, v as u8]
u32tou8abe(v) == [k \in 1..4 |-> (v \div Pow2(8 * (4 - k))) % 256]

\* String: the length in bytes as VarInt, then the bytes
StringWrite(v) == VarIntWrite(Len(v)) \o v

StringSize(v) == VarIntSize(Len(v)) + Len(v)

RECURSIVE FieldWrite(_, _)
\* for item in &self.vec { item.write(stream) }
RECURSIVE VecWriteItems(_, _, _)
VecWriteItems(t, vs, i) ==
    IF i > Len(vs) THEN <<>>
    ELSE FieldWrite(t, vs[i]) \o VecWriteItems(t, vs, i + 1)

\* self.field.write(stream) for every field, in order
RECURSIVE FieldWriteAll(_, _, _)
FieldWriteAll(ts, vs, i) ==
    IF i > Len(ts) THEN <<>>
    ELSE FieldWrite(ts[i], vs[i]) \o FieldWriteAll(ts, vs, i + 1)

\* write of a value v of type t
FieldWrite(t, v) ==
    CASE t.k = "SizedVec" ->
           VarIntWrite(Len(v)) \o VecWriteItems(t.of[1], v, 1)
      [] t.k = "Option" ->
           IF Len(v) = 0 THEN <<>> ELSE FieldWrite(t.of[1], v[1])
      [] t.k = "struct" -> FieldWriteAll(t.of, v, 1)
      [] t.k = "Recipe" -> FieldWrite(Struct(RecipeFields(v.kind)), v.val)
      [] t.k = "bool" -> <<IF v THEN 1 ELSE 0>>
      [] t.k = "i16" -> u16tou8abe(v)
      [] t.k \in {"i32", "f32"} -> u32tou8abe(v)
      [] t.k = "f64" -> u64tou8abe(v)
      [] t.k = "Uuid" -> u64tou8abe(v[1]) \o u64tou8abe(v[2])
      [] t.k \in {"String", "Chat"} -> StringWrite(v)
      [] t.k = "Nbt" -> v
      [] t.k = "GameEvent" -> <<v.id>> \o u32tou8abe(v.f)
      [] OTHER -> WriteProt(t.k, v)

\* a value of type t: n chooses among the values of a leaf and is the
\* length of a SizedVec, p says whether the Options are Some, and kind is
\* the kind of the recipes
RECURSIVE FieldSample(_, _, _, _)
FieldSample(t, n, p, kind) ==
    CASE t.k = "SizedVec" ->
           [i \in 1..n |-> FieldSample(t.of[1], n, p, kind)]
      [] t.k = "Option" ->
           IF p THEN <<FieldSample(t.of[1], n, p, kind)>> ELSE <<>>
      [] t.k = "struct" ->
           [i \in 1..Len(t.of) |-> FieldSample(t.of[i], n, p, kind)]
      [] t.k = "Recipe" ->
           [kind |-> kind,
            val |-> FieldSample(Struct(RecipeFields(kind)), n, p, kind)]
      [] t.k = "bool" -> n % 2 = 1
      [] t.k = "u8" -> <<0, 1, 255>>[(n % 3) + 1]
      [] t.k \in {"i16", "i32"} -> <<0, 1, -1>>[(n % 3) + 1]
      [] t.k = "f32" -> <<0, 1065353216, -1>>[(n % 3) + 1]
      [] t.k = "VarInt" -> <<0, 128, -1>>[(n % 3) + 1]
      [] t.k \in {"i64", "f64"} -> <<{}, {0}, U64Bits>>[(n % 3) + 1]
      [] t.k = "Uuid" ->
           <<<<{}, {}>>, <<{0}, {1}>>, <<U64Bits, U64Bits>>>>[(n % 3) + 1]
      [] t.k \in {"String", "Chat", "Nbt"} ->
           [i \in 1..(<<0, 3, 130>>[(n % 3) + 1]) |-> 97]
      [] t.k = "Position" ->
           <<Position(0, 0, 0), Position(1, 1, 1),
             Position(-1, -1, -1)>>[(n % 3) + 1]
      [] t.k = "GameEvent" -> [id |-> n % 13, f |-> 0]

RECURSIVE FieldSize(_, _)
\* self.vec.iter().map(|x| x.prot_size()).sum()
RECURSIVE VecSizeItems(_, _, _)
VecSizeItems(t, vs, i) ==
    IF i > Len(vs) THEN 0
    ELSE FieldSize(t, vs[i]) + VecSizeItems(t, vs, i + 1)

\* 0 + self.field.prot_size() for every field
RECURSIVE FieldSizeAll(_, _, _)
FieldSizeAll(ts, vs, i) ==
    IF i > Len(ts) THEN 0
    ELSE FieldSize(ts[i], vs[i]) + FieldSizeAll(ts, vs, i + 1)

\* an Option that counts its type also when it is None
OptionSizeOfType(t, v) ==
    IF Len(v) = 0 THEN FieldSize(t.of[1], FieldSample(t.of[1], 0, FALSE, ""))
    ELSE FieldSize(t.of[1], v[1])

\* Some(x) => x.prot_size(), None => 0
OptionSize(t, v) == IF Len(v) = 0 THEN 0 ELSE FieldSize(t.of[1], v[1])

\* prot_size of a value v of type t
FieldSize(t, v) ==
    CASE t.k = "SizedVec" ->
           VarIntSize(Len(v)) + VecSizeItems(t.of[1], v, 1)
      [] t.k = "Option" -> OptionSize(t, v)
      [] t.k = "struct" -> FieldSizeAll(t.of, v, 1)
      [] t.k = "Recipe" -> FieldSize(Struct(RecipeFields(v.kind)), v.val)
      [] t.k = "bool" -> 1
      [] t.k = "i16" -> 2
      [] t.k \in {"i32", "f32"} -> 4
      [] t.k = "f64" -> 8
      [] t.k = "Uuid" -> 16
      [] t.k \in {"String", "Chat"} -> StringSize(v)
      [] t.k = "Nbt" -> Len(v)
      [] t.k = "GameEvent" -> 1 + 4
      [] OTHER -> SizedProt(t.k, v)

\* packet_base!: VarInt::from(Self::id() as usize).prot_size()
\*   + the prot_size of every field
PacketSize(name, fields) ==
    VarIntSize(ClientPacketId(name))
    + FieldSizeAll(ClientPacketFields(name), fields, 1)

\* packet!: the VarInt of prot_size, the VarInt of the id, the fields
PacketWrite(name, fields) ==
    VarIntWrite(PacketSize(name, fields))
    \o VarIntWrite(ClientPacketId(name))
    \o FieldWriteAll(ClientPacketFields(name), fields, 1)

\* the values of one packet
ClientPacketValues(name) ==
    {FieldSample(Struct(ClientPacketFields(name)), n, p, kind) :
       n \in 0..MaxVariant, p \in BOOLEAN,
       kind \in (IF name = "UpdateRecipes" THEN RecipeKinds
                 ELSE {"CraftingSpecial"})}

(***************************************************************************)
(* Values on a stream.  One value is written to an empty buffer, followed  *)
(* by whatever comes next in the stream, and a value of the same type is   *)
(* read back from the start of the buffer.  An item is a value with its    *)
(* type; elem is the element type of a SizedVec.                           *)
(***************************************************************************)
Item(ty, elem, value) == [ty |-> ty, elem |-> elem, value |-> value]

NoItem == [ty |-> "none", elem |-> "none", value |-> 0]

\* the 32-bit values: the ends of every encoded length, the values of the
\* unit tests, and negative values
VarIntValues ==
    {0, 1, 127, 128, 255, 16383, 16384, 25565, 2097151, 2097152,
     268435455, 268435456, 2147483647, -1, -128, -2147483647 - 1}

\* the 64-bit values: small ones, the ends of the longer encodings,
\* i64::MAX, -1 and i64::MIN
VarLongValues ==
    {U64Of(n) : n \in {0, 1, 127, 128, 25565, 2147483647}}
    \cup {{35}, 0..48, {49}, 0..55, {56}, 0..62, U64Bits, {63}}

\* the ends of a field of n bits, and the values next to zero
FieldValues(n) == {-Pow2(n - 1), -1, 0, 1, Pow2(n - 1) - 1}

\* the block positions: x and z of 26 bits, y of 12 bits
PositionValues ==
    {Position(x, y, z) :
       x \in FieldValues(26), y \in FieldValues(12), z \in FieldValues(26)}

ElemValues(ty) ==
    CASE ty = "u8"      -> {0, 1, 255}
      [] ty = "i64"     -> {{}, {0}, U64Bits}
      [] ty = "VarInt"  -> {0, 127, 128}
      [] ty = "VarLong" -> {{}, {7}}

ElemTypes == {"u8", "i64", "VarInt", "VarLong"}

VecsOf(values) == UNION {[1..n -> values] : n \in 0..MaxVecLen}

\* the types a test writes, with the element type of a SizedVec
ItemTypes ==
    {<<"VarInt", "none">>, <<"VarLong", "none">>, <<"Position", "none">>}
    \cup {<<"SizedVec", ty>> : ty \in ElemTypes}
    \cup {<<"Packet", name>> : name \in ClientPacketNames}

\* the values of one type
Items(ty, elem) ==
    CASE ty = "VarInt"   -> {Item(ty, elem, v) : v \in VarIntValues}
      [] ty = "VarLong"  -> {Item(ty, elem, v) : v \in VarLongValues}
      [] ty = "Position" -> {Item(ty, elem, v) : v \in PositionValues}
      [] ty = "SizedVec" ->
           {Item(ty, elem, vec) : vec \in VecsOf(ElemValues(elem))}
      [] ty = "Packet"   ->
           {Item(ty, elem, v) : v \in ClientPacketValues(elem)}

\* the bytes that follow the value on the stream
Trailers == UNION {[1..n -> {1}] : n \in 0..MaxTrailer}

Encode(item) ==
    IF item.ty = "Packet" THEN PacketWrite(item.elem, item.value)
    ELSE IF item.ty = "SizedVec" THEN SizedVecWrite(item.elem, item.value)
    ELSE WriteProt(item.ty, item.value)

EncodedSize(item) ==
    IF item.ty = "Packet" THEN PacketSize(item.elem, item.value)
    ELSE IF item.ty = "SizedVec" THEN SizedVecSize(item.elem, item.value)
    ELSE SizedProt(item.ty, item.value)

Decode(item, s, p, eof) ==
    IF item.ty = "SizedVec" THEN SizedVecRead(item.elem, s, p, eof)
    ELSE ReadProt(item.ty, s, p, eof)

CodecInit ==
    /\ connection = NewConnectionInfo
    /\ group = "status"
    /\ online = FALSE
    /\ inbound = <<>>
    /\ peerClosed = FALSE
    /\ queue = <<>>
    /\ rpc = "loop"
    /\ rout = <<>>
    /\ hpc = "sleep"
    /\ hmsg = NoMsg
    /\ wpc = "recv"
    /\ section = NoData
    /\ array = NoData
    /\ profile = "release"
    /\ wire = <<>>
    /\ server = NoData
    /\ last = NoLast
    /\ hist = [item |-> NoItem, written |-> 0]

\* value.write(&mut buf) on an empty buffer
CodecWrite ==
    \E t \in ItemTypes : \E item \in Items(t[1], t[2]) :
      \E bytes \in {Encode(item)}, rest \in Trailers :
        /\ wire' = bytes \o rest
        /\ hist' = [item |-> item, written |-> Len(bytes)]
        /\ last' = [kind |-> "write", st |-> "ok", item |-> item,
                    value |-> item.value, bytes |-> bytes,
                    size |-> EncodedSize(item), consumed |-> 0]
        /\ UNCHANGED <<actorVars, section, array, profile, server>>

\* T::read(&mut stream) of the type that was written
CodecRead ==
    /\ hist.item.ty \notin {"none", "Packet"}
    /\ \E r \in {Decode(hist.item, wire, 1, TRUE)} :
         /\ wire' = SubSeqFrom(wire, r.pos)
         /\ last' = [kind |-> "read", st |-> r.st, item |-> hist.item,
                     value |-> r.val, bytes |-> <<>>,
                     size |-> hist.written, consumed |-> r.pos - 1]
    /\ hist' = [item |-> NoItem, written |-> 0]
    /\ UNCHANGED <<actorVars, section, array, profile, server>>

CodecNext ==
    \/ CodecWrite
    \/ CodecRead

CodecSpec == CodecInit /\ [][CodecNext]_vars

(***************************************************************************)
(* World: chunks maps the position of a section to the section.            *)
(***************************************************************************)
STONE == 1

\* a / b on i32, which rounds toward zero
TruncDiv(a, b) == IF a >= 0 THEN a \div b ELSE -((-a) \div b)

\* the sections of World::new_grass: x and z in -3..=3, y in 0..24 less 4
GrassSections ==
    {Position(x, y - 4, z) :
       x \in (-CHUNK_RADIUS)..CHUNK_RADIUS,
       y \in 0..(COLUMN_HEIGHT - 1),
       z \in (-CHUNK_RADIUS)..CHUNK_RADIUS}

\* the three lowest layers are filled with grass and hold one stone
new_grass(build) ==
    With(set_block(fill(ChunkSectionNew, GRASS), Position(5, 5, 5), STONE,
                   build).val,
         LAMBDA filled :
           [chunks |-> [p \in GrassSections |->
                          IF p.y + 4 < 3 THEN filled ELSE ChunkSectionNew]])

\* the quotient with -1 added for a negative coordinate
chunk_pos_for_global_pos(global_pos) ==
    Position(TruncDiv(global_pos.x, SECTION_EDGE)
               + (IF global_pos.x < 0 THEN -1 ELSE 0),
             TruncDiv(global_pos.y, SECTION_EDGE)
               + (IF global_pos.y < 0 THEN -1 ELSE 0),
             TruncDiv(global_pos.z, SECTION_EDGE)
               + (IF global_pos.z < 0 THEN -1 ELSE 0))

\* rem_euclid of x, y + 64 and z
rel_chunk_pos_for_global_pos(global_pos) ==
    Position(global_pos.x % SECTION_EDGE, (global_pos.y + 64) % SECTION_EDGE,
             global_pos.z % SECTION_EDGE)

\* World::set_block: out is <<>> for None and <<packets>> for Some(packets)
world_set_block(this, position, state, build) ==
    With(chunk_pos_for_global_pos(position), LAMBDA chunk_pos :
    With(rel_chunk_pos_for_global_pos(position), LAMBDA rel_pos :
      IF chunk_pos \in DOMAIN this.chunks
      THEN With(set_block(this.chunks[chunk_pos], rel_pos, state, build),
                LAMBDA set :
             IF set.st # "ok"
             THEN [st |-> "panic",
                   val |-> [this EXCEPT !.chunks[chunk_pos] = set.val],
                   out |-> <<>>, chunk_pos |-> chunk_pos,
                   rel_pos |-> rel_pos]
             ELSE [st |-> "ok",
                   val |-> [this EXCEPT !.chunks[chunk_pos] = set.val],
                   out |-> <<<<Packet("BlockUpdate",
                                      <<position, state>>)>>>>,
                   chunk_pos |-> chunk_pos, rel_pos |-> rel_pos])
      ELSE [st |-> "ok", val |-> this, out |-> <<>>,
            chunk_pos |-> chunk_pos, rel_pos |-> rel_pos]))

(***************************************************************************)
(* The world in use: the world of World::new_grass, and callers that set   *)
(* blocks at global positions on and next to the borders of sections and   *)
(* of the world, on every axis.  In this specification the variable        *)
(* section holds the world.                                                *)
(***************************************************************************)
\* x and z: the lowest block of the world, both sides of the border of the
\* sections -2 and -1, of -1 and 0, and the first block past the world
XZCoords == {-48, -17, -16, -1, 0, 64}

\* y: the lowest block of the world, the borders of the sections -2 and -1
\* and of -1 and 0, and the highest block
YCoords == {-64, -17, -16, -1, 0, 319}

GlobalPositions ==
    {Position(x, 0, 0) : x \in XZCoords}
    \cup {Position(0, y, 0) : y \in YCoords}
    \cup {Position(0, 0, z) : z \in XZCoords}
    \cup {Position(-16, -16, -16), Position(5, -27, 5)}

WorldInit ==
    /\ connection = NewConnectionInfo
    /\ group = "status"
    /\ online = FALSE
    /\ inbound = <<>>
    /\ peerClosed = FALSE
    /\ queue = <<>>
    /\ rpc = "loop"
    /\ rout = <<>>
    /\ hpc = "sleep"
    /\ hmsg = NoMsg
    /\ wpc = "recv"
    /\ array = NoData
    /\ wire = NoData
    /\ server = NoData
    /\ profile = "dev"
    /\ section = new_grass("dev")
    /\ last = NoLast
    /\ hist = [writes |-> 0]

\* world.set_block(position, state)
WorldSetBlock ==
    /\ hist.writes < MaxWrites
    /\ \E position \in GlobalPositions, state \in {AIR, GRASS} :
         \E r \in {world_set_block(section, position, state, profile)} :
           /\ section' = r.val
           /\ last' = [kind |-> "world", st |-> r.st, position |-> position,
                       state |-> state, out |-> r.out,
                       chunk_pos |-> r.chunk_pos, rel_pos |-> r.rel_pos]
    /\ hist' = [writes |-> hist.writes + 1]
    /\ UNCHANGED <<actorVars, array, wire, profile, server>>

WorldNext == WorldSetBlock

WorldSpec == WorldInit /\ [][WorldNext]_vars

(***************************************************************************)
(* The server: the accept loop, the list of connection handles behind an   *)
(* async read-write lock, the web task that answers /players, and the      *)
(* actors of the connections accepted.  Of an actor this specification     *)
(* keeps the connection info behind its lock, its channel, its reader,     *)
(* which takes the connection to Play and then handles position packets,   *)
(* and its writer, which answers PlayerInfo.  A critical section is as     *)
(* many steps as it reads or assigns fields.                               *)
(***************************************************************************)
\* mpsc::channel(8)
CHANNEL_CAPACITY == 8

PlayerInfo == [kind |-> "PlayerInfo"]

\* what the random sources return on the way to Play
NoRandom == [token |-> <<1, 1, 1, 1>>, teleport |-> 0, session |-> "ok"]

RECURSIVE HandleAll(_, _, _)
HandleAll(pkts, k, con) ==
    IF k > Len(pkts) THEN con
    ELSE HandleAll(pkts, k + 1,
                   Handle(pkts[k].pkt, pkts[k].this, con, FALSE, NoRandom).con)

\* the connection after Handshake to Login, LoginStart, LoginAck and
\* ConfigurationFinish
Joined(con, username) ==
    HandleAll(<<[pkt |-> "Handshake", this |-> <<764, <<>>, 25565, 2>>],
                [pkt |-> "LoginStart", this |-> <<username>>],
                [pkt |-> "LoginAck", this |-> <<>>],
                [pkt |-> "ConfigurationFinish", this |-> <<>>]>>, 1, con)

\* the position packets a peer sends
Moves ==
    {[pkt |-> "SetPlayerPosition",
      this |-> <<F64Of(1), F64Of(2), F64Of(3), TRUE>>],
     [pkt |-> "SetPlayerPositionAndRotation",
      this |-> <<F64Of(4), F64Of(5), F64Of(6), F32Of(63), F32Of(64), FALSE>>],
     [pkt |-> "SetPlayerRotation",
      this |-> <<F32Of(65), F32Of(66), TRUE>>]}

\* the fields of position a handler assigns, in the order of its statements
Assigned(pkt) ==
    CASE pkt = "SetPlayerPosition" -> <<"x", "y", "z", "on_ground">>
      [] pkt = "SetPlayerPositionAndRotation" ->
            <<"x", "y", "z", "pitch", "yaw", "on_ground">>
      [] pkt = "SetPlayerRotation" -> <<"pitch", "yaw", "on_ground">>

\* the fields of the connection info the writer reads for dto::Player, in
\* the order of its expression
Snapshot == <<"username", "x", "y", "z", "pitch", "yaw", "on_ground">>

\* the player of a connection info
Player(info) == [username |-> info.username, position |-> info.position]

\* a variant of the lock that lets a reader in beside a writer
CanReadUnlocked(lock) == TRUE

\* std::sync::RwLock: read() returns unless a writer holds the lock, write()
\* when nobody holds it
CanRead(lock) == lock # "write"
CanWrite(lock) == lock = "free"

\* ConnectionActorHandle::new: the actor of a new connection.  players is
\* history: the players the info has been at the ends of the reader's steps
NewActor ==
    [info |-> NewConnectionInfo,
     lock |-> "free",
     queue |-> <<>>,
     rd |-> <<>>,
     wpc |-> "recv",
     k |-> 0,
     dto |-> Player(NewConnectionInfo),
     players |-> {Player(NewConnectionInfo)}]

ServerNew ==
    [accepted |-> 0,
     pending |-> 0,
     queued |-> FALSE,
     handles |-> <<>>,
     reading |-> FALSE,
     web |-> [pc |-> "idle", i |-> 0, players |-> <<>>, reply |-> <<>>],
     requests |-> 0,
     moves |-> 0,
     actors |-> <<>>]

ServerInit ==
    /\ connection = NewConnectionInfo
    /\ group = "move"
    /\ online = FALSE
    /\ inbound = <<>>
    /\ peerClosed = FALSE
    /\ queue = <<>>
    /\ rpc = "loop"
    /\ rout = <<>>
    /\ hpc = "sleep"
    /\ hmsg = NoMsg
    /\ wpc = "recv"
    /\ section = NoData
    /\ array = NoData
    /\ wire = NoData
    /\ profile = "release"
    /\ hist = NoHist
    /\ last = NoLast
    /\ server = ServerNew

ServerStep(kind, a, next) ==
    /\ server' = next
    /\ last' = [kind |-> kind, actor |-> a,
                same |-> a = 0 \/ a > Len(server.actors)
                           \/ next.actors[a].info = server.actors[a].info,
                player |-> IF a = 0 THEN <<>> ELSE next.actors[a].dto]
    /\ UNCHANGED <<actorVars, section, array, wire, profile, hist>>

\* listener.accept() returns and ConnectionActorHandle::new spawns the actor
Accept ==
    /\ server.pending = 0
    /\ server.accepted < MaxConnections
    /\ ServerStep("accept", 0,
                  [server EXCEPT !.accepted = @ + 1,
                                 !.pending = server.accepted + 1,
                                 !.actors = Append(@, NewActor)])

\* connection_handles.write().await finds the lock held and waits
RegisterWait ==
    /\ server.pending # 0
    /\ server.reading
    /\ ~server.queued
    /\ ServerStep("wait", 0, [server EXCEPT !.queued = TRUE])

\* connection_handles.write().await.push(handle)
Register ==
    /\ server.pending # 0
    /\ ~server.reading
    /\ ServerStep("register", 0,
                  [server EXCEPT !.handles = Append(@, server.pending),
                                 !.pending = 0,
                                 !.queued = FALSE])

\* GET /players: connections.read().await, behind a writer that waits
WebRequest ==
    /\ server.web.pc = "idle"
    /\ server.requests < MaxRequests
    /\ ~server.queued
    /\ ServerStep("request", 0,
                  [server EXCEPT !.reading = TRUE,
                                 !.requests = @ + 1,
                                 !.web = [pc |-> "send", i |-> 1,
                                          players |-> <<>>, reply |-> <<>>]])

\* connection.send(PlayerInfo(sender)).await
WebSend ==
    /\ server.web.pc = "send"
    /\ server.web.i <= Len(server.handles)
    /\ \E a \in {server.handles[server.web.i]} :
         /\ Len(server.actors[a].queue) < CHANNEL_CAPACITY
         /\ ServerStep("ask", 0,
                       [server EXCEPT !.actors[a].queue = Append(@, PlayerInfo),
                                      !.web.pc = "await",
                                      !.web.reply = <<>>])

\* receiver.await returns the player
WebReceive ==
    /\ server.web.pc = "await"
    /\ server.web.reply # <<>>
    /\ ServerStep("answer", 0,
                  [server EXCEPT !.web.players = Append(@, server.web.reply[1]),
                                 !.web.i = @ + 1,
                                 !.web.pc = "send"])

\* the loop is over: the guard is dropped and the players are returned
WebRespond ==
    /\ server.web.pc = "send"
    /\ server.web.i > Len(server.handles)
    /\ ServerStep("respond", 0,
                  [server EXCEPT !.reading = FALSE, !.web.pc = "idle"])

\* the reader of actor a takes the connection to Play
Join(a) ==
    /\ server.actors[a].info.state = "Handshake"
    /\ server.actors[a].rd = <<>>
    /\ CanWrite(server.actors[a].lock)
    /\ \E info \in {Joined(server.actors[a].info, <<64 + a>>)} :
         ServerStep("join", a,
                    [server EXCEPT !.actors[a].info = info,
                                   !.actors[a].players = @ \cup {Player(info)}])

\* a position handler: connection.write()
MoveLock(a) ==
    /\ server.actors[a].info.state = "Play"
    /\ server.actors[a].rd = <<>>
    /\ server.moves < MaxMoves
    /\ CanWrite(server.actors[a].lock)
    /\ \E m \in Moves :
         ServerStep("move", a,
                    [server EXCEPT
                       !.moves = @ + 1,
                       !.actors[a].lock = "write",
                       !.actors[a].rd =
                          [target |-> Handle(m.pkt, m.this,
                                             server.actors[a].info, FALSE,
                                             NoRandom).con.position,
                           fields |-> Assigned(m.pkt),
                           k |-> 1]])

\* one assignment to a field of guard.position
MoveAssign(a) ==
    /\ server.actors[a].rd # <<>>
    /\ server.actors[a].rd.k <= Len(server.actors[a].rd.fields)
    /\ \E rd \in {server.actors[a].rd} :
         ServerStep("assign", a,
                    [server EXCEPT
                       !.actors[a].info.position[rd.fields[rd.k]] =
                          rd.target[rd.fields[rd.k]],
                       !.actors[a].rd.k = @ + 1])

\* the handler returns and the guard is dropped
MoveUnlock(a) ==
    /\ server.actors[a].rd # <<>>
    /\ server.actors[a].rd.k > Len(server.actors[a].rd.fields)
    /\ ServerStep("moved", a,
                  [server EXCEPT
                     !.actors[a].lock = "free",
                     !.actors[a].rd = <<>>,
                     !.actors[a].players =
                        @ \cup {Player(server.actors[a].info)}])

\* self.receiver.recv().await returns a PlayerInfo
WriterRecv(a) ==
    /\ server.actors[a].wpc = "recv"
    /\ server.actors[a].queue # <<>>
    /\ ServerStep("recv", a,
                  [server EXCEPT !.actors[a].queue = Tail(@),
                                 !.actors[a].wpc = "lock"])

\* self.connection.read()
WriterLock(a) ==
    /\ server.actors[a].wpc = "lock"
    /\ CanRead(server.actors[a].lock)
    /\ ServerStep("lock", a,
                  [server EXCEPT
                     !.actors[a].lock = IF @ = "write" THEN @ ELSE "read",
                     !.actors[a].wpc = "read",
                     !.actors[a].k = 1])

\* one field of the connection info is read into the player
WriterRead(a) ==
    /\ server.actors[a].wpc = "read"
    /\ server.actors[a].k <= Len(Snapshot)
    /\ \E f \in {Snapshot[server.actors[a].k]} :
         ServerStep("read", a,
                    [server EXCEPT
                       !.actors[a].dto =
                          IF f = "username"
                          THEN [@ EXCEPT
                                  !.username = server.actors[a].info.username]
                          ELSE [@ EXCEPT
                                  !.position[f] =
                                     server.actors[a].info.position[f]],
                       !.actors[a].k = @ + 1])

\* the block ends and the guard is dropped
WriterUnlock(a) ==
    /\ server.actors[a].wpc = "read"
    /\ server.actors[a].k > Len(Snapshot)
    /\ ServerStep("unlock", a,
                  [server EXCEPT
                     !.actors[a].lock = IF @ = "read" THEN "free" ELSE @,
                     !.actors[a].wpc = "send"])

\* sender.send(player)
WriterReply(a) ==
    /\ server.actors[a].wpc = "send"
    /\ ServerStep("reply", a,
                  [server EXCEPT
                     !.web.reply = Append(@, server.actors[a].dto),
                     !.actors[a].wpc = "recv"])

\* the actors spawned so far
Actors == 1..Len(server.actors)

ServerNext ==
    \/ Accept
    \/ RegisterWait
    \/ Register
    \/ WebRequest
    \/ WebSend
    \/ WebReceive
    \/ WebRespond
    \/ \E a \in Actors : Join(a)
    \/ \E a \in Actors : MoveLock(a)
    \/ \E a \in Actors : MoveAssign(a)
    \/ \E a \in Actors : MoveUnlock(a)
    \/ \E a \in Actors : WriterRecv(a)
    \/ \E a \in Actors : WriterLock(a)
    \/ \E a \in Actors : WriterRead(a)
    \/ \E a \in Actors : WriterUnlock(a)
    \/ \E a \in Actors : WriterReply(a)

ServerSpec == ServerInit /\ [][ServerNext]_vars

(***************************************************************************)
(* hexdigest: the digest of the server hash as the session server wants    *)
(* it.  A string is the sequence of its characters.                        *)
(***************************************************************************)
\* the digits of {:x}
HexChars ==
    <<"0", "1", "2", "3", "4", "5", "6", "7", "8", "9", "a", "b", "c", "d",
      "e", "f">>

\* the two's complement of a number given by its bytes, big end first:
\* every byte is inverted and one is added from the right
RECURSIVE TwosComplement(_, _, _)
TwosComplement(bytes, k, carry) ==
    IF k = 0 THEN <<>>
    ELSE TwosComplement(bytes, k - 1, (255 - bytes[k] + carry) \div 256)
         \o <<(255 - bytes[k] + carry) % 256>>

\* a variant that takes the bytes for the magnitude whatever their top bit
FromUnsignedBytesBe(bytes) == [minus |-> FALSE, mag |-> bytes]

\* BigInt::from_signed_bytes_be: the sign and the magnitude, big end first
FromSignedBytesBe(bytes) ==
    IF bytes # <<>> /\ bytes[1] >= 128
    THEN [minus |-> TRUE, mag |-> TwosComplement(bytes, Len(bytes), 1)]
    ELSE [minus |-> FALSE, mag |-> bytes]

\* trim_start_matches("0")
RECURSIVE TrimStartZeros(_)
TrimStartZeros(s) ==
    IF s # <<>> /\ s[1] = "0" THEN TrimStartZeros(Tail(s)) ELSE s

\* the hex digits of the bytes, two for each
Nibbles(bytes) ==
    [i \in 1..(2 * Len(bytes)) |->
       IF i % 2 = 1 THEN HexChars[(bytes[(i + 1) \div 2] \div 16) + 1]
       ELSE HexChars[(bytes[i \div 2] % 16) + 1]]

\* format!("{:x}", bigint) of a magnitude: no leading zero, "0" for zero
LowerHex(mag) ==
    IF TrimStartZeros(Nibbles(mag)) = <<>> THEN <<"0">>
    ELSE TrimStartZeros(Nibbles(mag))

hexdigest(bytes) ==
    With(FromSignedBytesBe(bytes), LAMBDA bigint :
    With(bigint.minus /\ LowerHex(bigint.mag) # <<"0">>, LAMBDA is_negative :
    With(TrimStartZeros(LowerHex(bigint.mag)), LAMBDA res :
      IF is_negative THEN <<"-">> \o res ELSE res)))

\* the SHA-1 digests of the names of the tests
DigestNotch ==
    <<78, 209, 244, 107, 190, 4, 188, 117, 107, 203, 23, 192, 199, 206, 62,
      70, 50, 240, 106, 72>>

DigestJeb ==
    <<131, 98, 164, 255, 187, 62, 207, 239, 101, 162, 132, 160, 74, 60,
      232, 63, 212, 177, 215, 63>>

DigestSimon ==
    <<8, 142, 22, 161, 1, 146, 119, 177, 93, 88, 250, 240, 84, 30, 17, 145,
      14, 183, 86, 246>>

(***************************************************************************)
(* hexdigest in use: it is given the digests of the tests and every short  *)
(* sequence of bytes that lie at the ends and in the middle of the range.  *)
(* In this specification the variable wire holds the bytes.                *)
(***************************************************************************)
DigestBytes == {0, 1, 15, 16, 127, 128, 255}

RECURSIVE BytesUpTo(_)
BytesUpTo(n) ==
    IF n = 0 THEN {<<>>}
    ELSE BytesUpTo(n - 1)
         \cup {Append(s, b) : s \in {t \in BytesUpTo(n - 1) : Len(t) = n - 1},
                              b \in DigestBytes}

DigestInputs ==
    BytesUpTo(MaxDigestLen) \cup {DigestNotch, DigestJeb, DigestSimon}

DigestInit ==
    /\ connection = NewConnectionInfo
    /\ group = "login"
    /\ online = FALSE
    /\ inbound = <<>>
    /\ peerClosed = FALSE
    /\ queue = <<>>
    /\ rpc = "loop"
    /\ rout = <<>>
    /\ hpc = "sleep"
    /\ hmsg = NoMsg
    /\ wpc = "recv"
    /\ section = NoData
    /\ array = NoData
    /\ profile = "release"
    /\ server = NoData
    /\ hist = NoHist
    /\ last = NoLast
    /\ wire \in DigestInputs

\* hexdigest(bytes)
HexDigest ==
    /\ last.kind = "none"
    /\ last' = [kind |-> "hexdigest", bytes |-> wire, res |-> hexdigest(wire)]
    /\ UNCHANGED <<actorVars, section, array, wire, profile, hist, server>>

DigestNext == HexDigest

DigestSpec == DigestInit /\ [][DigestNext]_vars

(***************************************************************************)
(* The connection of a peer that confirms teleports, under a fair          *)
(* scheduler: the batch of get_chunks passes through the channel of        *)
(* capacity 8 while the heartbeat runs.                                    *)
(***************************************************************************)
DrainInit == Init /\ group = "teleport"

DrainSpec ==
    /\ DrainInit
    /\ [][Next]_vars
    /\ WF_vars(ReaderEof)
    /\ WF_vars(ReaderSend)
    /\ WF_vars(HeartbeatWake)
    /\ WF_vars(HeartbeatTick)
    /\ WF_vars(HeartbeatSend)
    /\ WF_vars(WriterHandle)

(***************************************************************************)
(* Properties.  An accepted frame is described by last: st is the result   *)
(* of parse_packet, pkt the packet dispatched, this its fields, res what   *)
(* the handler returned, out the packets it returned, pre the connection   *)
(* info before the step.                                                   *)
(***************************************************************************)

\* C1: a Handshake with next_state 1 moves the connection to Status and one
\* with next_state 2 moves it to Login; every other next_state is answered
\* with InvalidNextState, which is fatal: the state stays what it was, no
\* packet is returned, and the reader closes the connection and ends.
C1_HandshakeNextState ==
    last.kind = "accept" /\ last.st = "ok" /\ last.pkt = "Handshake" =>
      /\ last.out = <<>>
      /\ last.this[4] = 1 =>
            /\ last.res = "Ok"
            /\ connection = [last.pre EXCEPT !.state = "Status"]
      /\ last.this[4] = 2 =>
            /\ last.res = "Ok"
            /\ connection = [last.pre EXCEPT !.state = "Login"]
      /\ last.this[4] \notin {1, 2} =>
            /\ last.res = "InvalidNextState"
            /\ is_fatal(last.res)
            /\ connection.state = last.pre.state
            /\ connection.closed
            /\ rpc = "done"

\* a Handshake with next_state 3 was refused
C1_Witness ==
    /\ last.kind = "accept" /\ last.st = "ok" /\ last.pkt = "Handshake"
    /\ last.this[4] = 3
    /\ last.res = "InvalidNextState"

\* C2: a keepalive echo carrying the current keep_alive_id is accepted: no
\* error, no packet, nothing of the connection changes and the reader goes
\* on.  An echo with any other id, an id issued earlier and overwritten
\* since included, is answered with KeepAliveIdMismatch, which is fatal and
\* closes the connection.
C2_KeepAliveEcho ==
    /\ last.kind = "accept" /\ last.st = "ok"
    /\ last.pkt \in {"ConfigurationKeepAlive", "PlayKeepAlive"}
    => /\ last.out = <<>>
       /\ last.this[1] = last.pre.keep_alive_id =>
             /\ last.res = "Ok"
             /\ connection = last.pre
             /\ rpc = "loop"
       /\ last.this[1] # last.pre.keep_alive_id =>
             /\ last.res = "KeepAliveIdMismatch"
             /\ is_fatal(last.res)
             /\ connection = Close(last.pre)
             /\ rpc = "done"

\* the echo of a keepalive id that the heartbeat had sent and has
\* overwritten since was refused
C2_Witness ==
    /\ last.kind = "accept" /\ last.st = "ok"
    /\ last.pkt \in {"ConfigurationKeepAlive", "PlayKeepAlive"}
    /\ last.this[1] \in hist.sentKA
    /\ last.this[1] # last.pre.keep_alive_id
    /\ last.res = "KeepAliveIdMismatch"

\* C3: once PlayerSession has returned a SynchronizePlayerPosition, a
\* ConfirmTeleportation carrying the teleport_id of the latest one is
\* accepted and answered with packets; one carrying any other id is answered
\* with TeleportIdMismatch, which is fatal: no packet is returned and the
\* connection is closed.
C3_ConfirmTeleportation ==
    /\ last.kind = "accept" /\ last.st = "ok"
    /\ last.pkt = "ConfirmTeleportation"
    /\ hist.syncSent
    => /\ last.this[1] = last.pre.teleport_id =>
             /\ last.res = "Ok"
             /\ last.out # <<>>
             /\ connection = last.pre
       /\ last.this[1] # last.pre.teleport_id =>
             /\ last.res = "TeleportIdMismatch"
             /\ is_fatal(last.res)
             /\ last.out = <<>>
             /\ connection = Close(last.pre)
             /\ rpc = "done"

\* the teleport id 1 drawn by PlayerSession was confirmed
C3_Witness ==
    /\ last.kind = "accept" /\ last.st = "ok"
    /\ last.pkt = "ConfirmTeleportation"
    /\ hist.syncSent
    /\ last.pre.teleport_id = 1
    /\ last.this[1] = 1
    /\ last.res = "Ok"

\* C4: the connection state changes only in a step that accepts a
\* Handshake (Handshake to Status or Login), a LoginAck (Login to
\* Configuration) or a ConfigurationFinish (Configuration to Play); those
\* two always change it, and every other step, whatever frame it accepts,
\* leaves it alone.
C4_StateTransitions ==
    [][/\ connection'.state # connection.state =>
            /\ last'.kind = "accept" /\ last'.st = "ok" /\ last'.res = "Ok"
            /\ \/ /\ last'.pkt = "Handshake"
                  /\ connection.state = "Handshake"
                  /\ connection'.state \in {"Status", "Login"}
               \/ /\ last'.pkt = "LoginAck"
                  /\ connection.state = "Login"
                  /\ connection'.state = "Configuration"
               \/ /\ last'.pkt = "ConfigurationFinish"
                  /\ connection.state = "Configuration"
                  /\ connection'.state = "Play"
       /\ /\ last'.kind = "accept" /\ last'.st = "ok"
          /\ last'.pkt \in {"LoginAck", "ConfigurationFinish"}
          => connection'.state # connection.state]_vars

\* a ConfigurationFinish has moved the connection to Play
C4_Witness ==
    /\ last.kind = "accept" /\ last.st = "ok"
    /\ last.pkt = "ConfigurationFinish"
    /\ last.pre.state = "Configuration"
    /\ connection.state = "Play"

C6_TasksTerminate ==
    (last.kind = "accept" /\ last.res \notin {"Ok", "panic"}
       /\ is_fatal(last.res))
    ~> (connection.closed /\ rpc = "done" /\ hpc = "done" /\ wpc = "done")

\* C7: while the connection is open and in Configuration the heartbeat is
\* running, so that a ConfigurationKeepAlive follows within its interval.
C7_HeartbeatInConfiguration ==
    connection.state = "Configuration" /\ ~connection.closed => hpc # "done"

\* C8: a failed write of the writer closes the connection and ends the
\* writer.
C8_WriteErrorCloses ==
    last.kind = "writeError" => connection.closed /\ wpc = "done"

\* C9: a frame whose id is not known in the current state is skipped: after
\* the id exactly length - size(id) bytes are consumed, so that the next
\* frame is parsed from its first byte; the error is not fatal, no packet is
\* returned, and the connection, its state and closed flag included, stays
\* as it was.
C9_UnknownSkipped ==
    last.kind = "accept" /\ last.aligned /\ last.pkt = "Unknown" =>
      /\ last.st = "err"
      /\ last.res = "Any"
      /\ ~is_fatal(last.res)
      /\ last.body = last.len - last.idLen
      /\ last.endAligned
      /\ inbound # <<>> => inbound[1].first
      /\ last.out = <<>>
      /\ rout = <<>>
      /\ connection = last.pre
      /\ ~connection.closed
      /\ rpc = "loop"

\* an unknown frame with a payload was skipped and the next frame is at the
\* head of the stream
C9_Witness ==
    /\ last.kind = "accept" /\ last.aligned /\ last.pkt = "Unknown"
    /\ last.body > 0
    /\ inbound # <<>>
    /\ inbound[1].first

\* C10: on an unencrypted connection the parse of a frame consumes no more
\* than the declared length after the length prefix.
C10_NoOverRead ==
    last.kind = "accept" /\ last.aligned /\ last.pre.decrypter = <<>> =>
      last.consumed <= last.len

(***************************************************************************)
(* Properties of the chunk section.                                        *)
(***************************************************************************)
\* the state of the plain array at index i
Expected(i) ==
    IF i \in DOMAIN hist.shadow THEN hist.shadow[i]
    ELSE IF i < hist.prefill THEN PrefillState(i)
    ELSE hist.base

\* positions no call of a behaviour sets: the first and the last that held
\* a state at the start, and the first two that held none
Probes(kind) ==
    {PositionAt(kind, i) :
       i \in {0, hist.prefill - 1, hist.prefill, hist.prefill + 1}
             \cap 0..(section_edge(kind) - 1)}

\* the positions read: the probes and the positions callers set
Watched(kind) ==
    Probes(kind) \cup {p \in Positions(kind) : InSection(kind, p)}

\* C11: while every call passes a position inside the section, the block
\* container reads as the plain array does: get_at returns the state last
\* set at a position, and the state the section was built with (air, for a
\* new section) at a position never set, through every growth of the width
\* and the promotion to direct mode.
C11_PlainArray ==
    hist.kind = "Blocks" /\ hist.outside = 0 =>
      \A p \in Watched("Blocks") :
        get_at(section.blocks, p, profile)
          = Ok(Block(Expected(IndexOf("Blocks", p))))

\* a promoted block container in which a position was set after another
\* state had been set at it
C11_Witness ==
    /\ hist.kind = "Blocks" /\ hist.outside = 0
    /\ section.blocks.palette = <<>>
    /\ hist.prefill > 0
    /\ last.kind = "set" /\ last.st = "ok"
    /\ \E i \in DOMAIN hist.shadow : hist.shadow[i] = GRASS

\* C12: a call that inserts a new state widens the data by exactly one bit
\* when the palette then holds more than 2^B states, and promotes the
\* container instead (no palette, the global width) when that width would
\* pass the indirect maximum; no other call changes the width or the mode,
\* so a direct container stays direct; and the positions the call does not
\* set read the same before and after it.
C12_GrowthAndPromotion ==
    [][LET pre == Container(section, hist.kind)
           post == Container(section', hist.kind)
       IN  /\ IF /\ pre.palette # <<>>
                 /\ last'.id = PaletteLen(pre.palette[1])
                 /\ PaletteLen(pre.palette[1]) + 1
                      > Pow2(pre.data.bits_per_value)
              THEN IF pre.data.bits_per_value + 1 > max_palette_bits(hist.kind)
                   THEN /\ post.palette = <<>>
                        /\ post.data.bits_per_value
                             = global_palette_bits(hist.kind)
                   ELSE /\ post.palette # <<>>
                        /\ post.data.bits_per_value
                             = pre.data.bits_per_value + 1
              ELSE /\ post.data.bits_per_value = pre.data.bits_per_value
                   /\ (post.palette = <<>>) = (pre.palette = <<>>)
           /\ \A p \in Probes(hist.kind) :
                get_at(post, p, profile) = get_at(pre, p, profile)]_vars

\* the call that inserted the state of id 2^8 has promoted a block container
C12_Witness ==
    /\ hist.kind = "Blocks"
    /\ last.kind = "set" /\ last.st = "ok"
    /\ last.id = Pow2(MAX_PALETTE_BITS_BLOCKS)
    /\ section.blocks.palette = <<>>
    /\ section.blocks.data.bits_per_value = GLOBAL_PALETTE_BITS_BLOCKS

\* the values of the first count places of the word w of a packed array
Places(this, w, count) ==
    {NatOf(BitAnd(Shr(w, i * this.bits_per_value), mask(this, profile).val)) :
       i \in 0..(count - 1)}

\* the values a packed array holds at its indices 0..length-1: the places
\* of every word but the last, and the places in use of the last
StoredValues(this) ==
    UNION {Places(this, w, values_per_u64(this)) :
             w \in {this.bits[k] : k \in 1..(Len(this.bits) - 1)}}
    \cup Places(this, this.bits[Len(this.bits)],
                this.length - (Len(this.bits) - 1) * values_per_u64(this))

\* the global ids: the states a section is built with and callers pass
GlobalIds(kind) ==
    {neutral(kind).value}
    \cup {PrefillState(i) : i \in 0..(Pow2(max_palette_bits(kind)) - 1)}
    \cup States(kind)

\* the invariant of C13 for one container
Valid(this) ==
    IF this.palette # <<>>
    THEN /\ StoredValues(this.data) \subseteq DOMAIN this.palette[1].id_to_state
         /\ this.data.bits_per_value
              \in min_palette_bits(this.kind)..max_palette_bits(this.kind)
    ELSE /\ this.data.bits_per_value = global_palette_bits(this.kind)
         /\ StoredValues(this.data) \subseteq GlobalIds(this.kind)

\* C13: in every reachable state, an indirect container stores only ids of
\* its palette, at a width between the minimum and the indirect maximum of
\* its kind; a direct container has no palette, the global width of its
\* kind, and stores only global ids.
C13_ContainerInvariant ==
    Valid(section.blocks) /\ Valid(section.biomes)

\* a biome container that was promoted and set since
C13_Witness ==
    /\ hist.kind = "Biomes"
    /\ section.biomes.palette = <<>>
    /\ last.kind = "set" /\ last.st = "ok" /\ last.id = -1

\* C14: set_at with a position outside the section, above the edge or
\* negative, returns PositionOutOfBounds and leaves the container as it was.
C14_OutOfBounds ==
    last.kind = "set" /\ last.at /\ ~last.inside =>
      last.st = "err" /\ last.same

\* C15: while every call returned Ok, air_count is the number of positions
\* of the plain array that hold air.
C15_AirCount ==
    hist.kind = "Blocks" /\ ~hist.failed =>
      section.air_count
        = Cardinality({i \in 0..(SECTION_BLOCKS - 1) : Expected(i) = AIR})

\* a section filled with grass in which one block was set to air
C15_Witness ==
    /\ hist.kind = "Blocks" /\ ~hist.failed
    /\ hist.base = GRASS
    /\ last.kind = "set"
    /\ section.air_count = 1

\* the two maps of a palette are inverses of each other over the ids
\* 0..len-1, and id 0 is the neutral value
Inverse(palette) ==
    /\ DOMAIN palette.id_to_state = 0..(PaletteLen(palette) - 1)
    /\ \A id \in DOMAIN palette.id_to_state :
         /\ palette.id_to_state[id] \in DOMAIN palette.state_to_id
         /\ palette.state_to_id[palette.id_to_state[id]] = id
    /\ \A state \in DOMAIN palette.state_to_id :
         /\ palette.state_to_id[state] \in DOMAIN palette.id_to_state
         /\ palette.id_to_state[palette.state_to_id[state]] = state
    /\ palette.id_to_state[0] = neutral(palette.kind)

\* C16: index_or_insert returns the size of the palette for a state the
\* palette does not hold, and the id it returned before for a state it
\* holds (0 for the neutral value); it removes and changes no entry, and
\* the two maps of the palette stay inverses of each other.
C16_StableIds ==
    /\ [](/\ section.blocks.palette # <<>>
            => Inverse(section.blocks.palette[1])
          /\ section.biomes.palette # <<>>
            => Inverse(section.biomes.palette[1]))
    /\ [][LET pre == Container(section, hist.kind).palette
              post == Container(section', hist.kind).palette
              state == int_val(hist.kind, last'.state)
          IN  last'.id >= 0 =>
                /\ last'.id = IF state \in DOMAIN pre[1].state_to_id
                              THEN pre[1].state_to_id[state]
                              ELSE PaletteLen(pre[1])
                /\ state = neutral(hist.kind) => last'.id = 0
                /\ post # <<>> =>
                     /\ post[1].id_to_state[last'.id] = state
                     /\ \A id \in DOMAIN pre[1].id_to_state :
                          /\ id \in DOMAIN post[1].id_to_state
                          /\ post[1].id_to_state[id] = pre[1].id_to_state[id]]_vars

\* the id 1 is returned again after another state was given the id 2
C16_Witness ==
    /\ hist.kind = "Blocks"
    /\ last.kind = "set" /\ last.id = 1
    /\ section.blocks.palette # <<>>
    /\ PaletteLen(section.blocks.palette[1]) = 3

(***************************************************************************)
(* Properties of the packed array.                                         *)
(***************************************************************************)
\* the array reads as the plain array does at every index
ReadsBack ==
    \A j \in DOMAIN hist.values :
      PackedArrayGet(array, j, profile) = Ok(hist.values[j])

\* C17: for every width from 1 to 64, set(i, v) with i below the length and
\* v of at most 2^B - 1 returns, get(i) is v afterwards and get(j) is what
\* it was for every other j, and v lies in the word i div floor(64/B) at
\* the bit offset (i mod floor(64/B)) * B.
C17_SetGet ==
    last.kind = "set" =>
      /\ last.st = "ok"
      /\ ReadsBack
      /\ BitAnd(Shr(array.bits[(last.index
                                  \div (WORD_BITS \div array.bits_per_value))
                               + 1],
                    (last.index % (WORD_BITS \div array.bits_per_value))
                      * array.bits_per_value),
                0..(array.bits_per_value - 1))
           = last.value

\* C18: resized(newB) with newB >= B returns an array of the same length
\* that reads as the original does at every index, in
\* ceil(L / floor(64 / newB)) words.
C18_Resized ==
    last.kind = "resized" =>
      /\ last.st = "ok"
      /\ array.bits_per_value = last.index
      /\ array.length = Cardinality(DOMAIN hist.values)
      /\ ReadsBack
      /\ Len(array.bits)
           = (array.length + (WORD_BITS \div last.index) - 1)
               \div (WORD_BITS \div last.index)

(***************************************************************************)
(* Properties of the codecs.                                               *)
(***************************************************************************)
\* the k-th group of seven bits of a 32-bit value (the fifth has four bits)
Group32(v, k) ==
    IF k < 5 THEN (v \div Pow2(7 * (k - 1))) % CONTINUE_BIT
    ELSE (v \div Pow2(28)) % 16

\* the k-th group of seven bits of a 64-bit value (the tenth has one bit)
Group64(w, k) == NatOf({i \in 0..6 : 7 * (k - 1) + i \in w})

\* bs holds the groups, the lowest first, each but the last with
\* the high bit set, and no more groups than the value needs
Grouped(bs, most, GroupOf(_)) ==
    /\ Len(bs) \in 1..most
    /\ \A k \in 1..Len(bs) :
         bs[k] = GroupOf(k) + (IF k < Len(bs) THEN CONTINUE_BIT ELSE 0)
    /\ \A k \in (Len(bs) + 1)..most : GroupOf(k) = 0
    /\ Len(bs) > 1 => GroupOf(Len(bs)) # 0

\* C19: VarInt write produces 1 to 5 bytes, the 7-bit groups of the
\* two's-complement value, lowest first, high bit as continuation;
\* prot_size is the number of bytes written; read of those bytes returns
\* the value; the same for VarLong with 1 to 10 bytes; 128 is written as
\* 80 01, 25565 as dd c7 01, VarInt -1 as ff ff ff ff 0f.
C19_VarIntVarLong ==
    /\ last.kind = "write" /\ last.item.ty = "VarInt" =>
         /\ Grouped(last.bytes, 5, LAMBDA k : Group32(last.value, k))
         /\ last.size = Len(last.bytes)
         /\ last.value = 128 => last.bytes = <<128, 1>>
         /\ last.value = 25565 => last.bytes = <<221, 199, 1>>
         /\ last.value = -1 => last.bytes = <<255, 255, 255, 255, 15>>
    /\ last.kind = "write" /\ last.item.ty = "VarLong" =>
         /\ Grouped(last.bytes, 10, LAMBDA k : Group64(last.value, k))
         /\ last.size = Len(last.bytes)
         /\ last.value = U64Of(128) => last.bytes = <<128, 1>>
         /\ last.value = U64Of(25565) => last.bytes = <<221, 199, 1>>
    /\ last.kind = "read" /\ last.item.ty \in {"VarInt", "VarLong"} =>
         /\ last.st = "ok"
         /\ last.value = last.item.value
         /\ last.consumed = last.size

\* the five bytes of VarInt -1 read back, and before that written
C19_Witness ==
    /\ last.kind = "read"
    /\ last.item.ty = "VarInt"
    /\ last.item.value = -1
    /\ last.st = "ok"
    /\ last.value = -1
    /\ last.consumed = 5

\* C20: for a SizedVec of any element type, read consumes the count and
\* then exactly that many elements, and returns the sequence written.
C20_SizedVec ==
    last.kind = "read" /\ last.item.ty = "SizedVec" =>
      /\ last.st = "ok"
      /\ last.value = last.item.value
      /\ last.consumed = last.size

\* the n bits of the word from bit `low` on are the n low bits of the
\* two's-complement value v
FieldHolds(word, low, n, v) ==
    \A i \in 0..(n - 1) : (low + i \in word) <=> ((v \div Pow2(i)) % 2 = 1)

\* C21: for x, z of 26 bits and y of 12 bits, Position write packs x into
\* the high 26 bits, z into the middle 26 bits and y into the low 12 bits
\* of one 64-bit word, and read of that word returns (x, y, z) again.
C21_PositionWord ==
    /\ last.kind = "write" /\ last.item.ty = "Position" =>
         /\ Len(last.bytes) = 8
         /\ last.size = 8
         /\ FieldHolds(I64Read(last.bytes, 1, TRUE).val, 38, 26, last.value.x)
         /\ FieldHolds(I64Read(last.bytes, 1, TRUE).val, 12, 26, last.value.z)
         /\ FieldHolds(I64Read(last.bytes, 1, TRUE).val, 0, 12, last.value.y)
    /\ last.kind = "read" /\ last.item.ty = "Position" =>
         /\ last.st = "ok"
         /\ last.value = last.item.value
         /\ last.consumed = 8

\* the position with the lowest x, the highest z and y = -1 read back
C21_Witness ==
    /\ last.kind = "read"
    /\ last.item.ty = "Position"
    /\ last.st = "ok"
    /\ last.value = Position(-Pow2(25), -1, Pow2(25) - 1)

\* C22: for every clientbound packet value the VarInt length prefix
\* written equals the number of bytes that follow it, the VarInt id and
\* the payload, also when conditional fields are absent.
C22_LengthPrefix ==
    last.kind = "write" /\ last.item.ty = "Packet" =>
      /\ VarIntRead(last.bytes, 1, TRUE).st = "ok"
      /\ VarIntRead(last.bytes, 1, TRUE).val
           = Len(last.bytes) - (VarIntRead(last.bytes, 1, TRUE).pos - 1)
      /\ VarIntRead(last.bytes, VarIntRead(last.bytes, 1, TRUE).pos,
                    TRUE).val
           = ClientPacketId(last.item.elem)

\* a PlayLogin without death location, longer than 127 bytes
C22_Witness ==
    /\ last.kind = "write"
    /\ last.item.ty = "Packet"
    /\ last.item.elem = "PlayLogin"
    /\ last.value[17] = FALSE
    /\ last.value[18] = <<>>
    /\ last.value[19] = <<>>
    /\ Len(last.bytes) > 129
    /\ VarIntRead(last.bytes, 1, TRUE).val = Len(last.bytes) - 2

(***************************************************************************)
(* Properties of the world.                                                *)
(***************************************************************************)
\* C23: World maps a global position, negative coordinates and exact
\* negative multiples of 16 included, to the section (floor(x/16),
\* floor(y/16), floor(z/16)) and to the local position (x mod 16, y mod 16,
\* z mod 16), so that 16 * section + local = global on every axis.
C23_FlooredSections ==
    last.kind = "world" =>
      /\ last.chunk_pos = Position(last.position.x \div SECTION_EDGE,
                                   last.position.y \div SECTION_EDGE,
                                   last.position.z \div SECTION_EDGE)
      /\ last.rel_pos = Position(last.position.x % SECTION_EDGE,
                                 last.position.y % SECTION_EDGE,
                                 last.position.z % SECTION_EDGE)
      /\ SECTION_EDGE * last.chunk_pos.x + last.rel_pos.x = last.position.x
      /\ SECTION_EDGE * last.chunk_pos.y + last.rel_pos.y = last.position.y
      /\ SECTION_EDGE * last.chunk_pos.z + last.rel_pos.z = last.position.z

\* the local positions of a section
Locals ==
    {Position(x, y, z) :
       x \in 0..(SECTION_EDGE - 1), y \in 0..(SECTION_EDGE - 1),
       z \in 0..(SECTION_EDGE - 1)}

\* the section that holds a global position, and the place in it
Holder(position) ==
    Position(position.x \div SECTION_EDGE, position.y \div SECTION_EDGE,
             position.z \div SECTION_EDGE)

Place(position) ==
    Position(position.x % SECTION_EDGE, position.y % SECTION_EDGE,
             position.z % SECTION_EDGE)

\* C24: World::set_block returns exactly one BlockUpdate carrying the
\* given global position and block id when the section containing the
\* position exists, and then only that one block of that one section
\* changes; when the section is missing it returns None and the world is
\* unchanged.
C24_SetBlockFrame ==
    [][last'.kind = "world" =>
         IF Holder(last'.position) \in DOMAIN section.chunks
         THEN /\ last'.st = "ok"
              /\ last'.out = <<<<Packet("BlockUpdate",
                                        <<last'.position, last'.state>>)>>>>
              /\ DOMAIN section'.chunks = DOMAIN section.chunks
              /\ \A c \in DOMAIN section.chunks \ {Holder(last'.position)} :
                   section'.chunks[c] = section.chunks[c]
              /\ \A l \in Locals :
                   block(section'.chunks[Holder(last'.position)], l, profile)
                     = IF l = Place(last'.position) THEN Ok(last'.state)
                       ELSE block(section.chunks[Holder(last'.position)], l,
                                  profile)
         ELSE /\ last'.out = <<>>
              /\ section' = section]_vars

\* the local positions of a container of a kind
LocalsOf(kind) ==
    {Position(x, y, z) :
       x \in 0..(section_edge(kind) - 1), y \in 0..(section_edge(kind) - 1),
       z \in 0..(section_edge(kind) - 1)}

\* the index of a local position is y, z, x as digits to the base of the
\* edge, so that the position can be told from the index
IndexedByDigits(this, edge) ==
    \A p \in LocalsOf(this.kind) :
      /\ block_index(this, p) = <<(p.y * edge + p.z) * edge + p.x>>
      /\ block_index(this, p)[1] < this.data.length

\* C25: a block container holds exactly 4096 entries indexed
\* (y<<8)|(z<<4)|x for local x, y, z in 0..15, and a biome container exactly
\* 64 entries indexed (y<<4)|(z<<2)|x for local x, y, z in 0..3; distinct
\* in-range local positions map to distinct indices below the container
\* length.
C25_ContainerSizes ==
    /\ section.blocks.data.length = 4096
    /\ IndexedByDigits(section.blocks, 16)
    /\ section.biomes.data.length = 64
    /\ IndexedByDigits(section.biomes, 4)

\* a container whose palette holds a single value
SingleValued(this) == this.palette # <<>> /\ PaletteLen(this.palette[1]) = 1

\* bitsPerValue 0, the value as VarInt, a long array of no longs
SingleValuedBytes(value) == <<0>> \o VarIntWrite(value) \o VarIntWrite(0)

\* C26: a paletted container whose palette holds a single value serializes
\* as bitsPerValue = 0, then that single value as a VarInt, then an empty
\* long array (long count 0 and no longs); the biome container of a freshly
\* constructed section serializes this way, with VarInt(0) as the neutral
\* biome.
C26_SingleValued ==
    last.kind = "write" =>
      /\ SingleValued(section.blocks) =>
           last.blocks
             = SingleValuedBytes(section.blocks.palette[1].id_to_state[0].value)
      /\ SingleValued(section.biomes) =>
           last.biomes
             = SingleValuedBytes(section.biomes.palette[1].id_to_state[0].value)
      /\ section = ChunkSectionNew => last.biomes = SingleValuedBytes(0)

(***************************************************************************)
(* Further properties of the connection.                                   *)
(***************************************************************************)
\* the handler of EncryptionResponse has decrypted a verify token that is
\* not the one LoginStart stored
TokenMismatch ==
    /\ last.kind = "accept" /\ last.st = "ok"
    /\ last.pkt = "EncryptionResponse"
    /\ RsaDecrypt(last.this[2]).st = "ok"
    /\ RsaDecrypt(last.this[2]).val # last.pre.verify_token

\* C27: on EncryptionResponse, if the RSA-decrypted verify token differs
\* from the token stored at LoginStart, the handler fails fatally: the
\* connection is closed (closed flag set), no cipher contexts are installed
\* and no LoginSuccess is enqueued.
C27_TokenMismatchFatal ==
    TokenMismatch =>
      /\ connection.closed
      /\ connection.encrypter = last.pre.encrypter
      /\ connection.decrypter = last.pre.decrypter
      /\ last.out = <<>>

\* the places of a packet in what a handler returned
PlacesOf(out, packet) == {i \in 1..Len(out) : out[i] = packet}

\* C28: an accepted ConfirmTeleportation returns exactly 51 packets: one
\* SetDefaultSpawnPosition(0,0,0), one SetCenterChunk(0,0) and 49
\* ChunkDataAndUpdateLight packets, one for each chunk column (x, z) with x
\* and z in -3..3, each column exactly once and each carrying 24 sections.
C28_FiftyOnePackets ==
    /\ last.kind = "accept" /\ last.st = "ok"
    /\ last.pkt = "ConfirmTeleportation" /\ last.res = "Ok"
    => /\ Len(last.out) = 51
       /\ Cardinality(PlacesOf(last.out,
                             Packet("SetDefaultSpawnPosition", <<0, 0, 0>>)))
            = 1
       /\ Cardinality(PlacesOf(last.out, Packet("SetCenterChunk", <<0, 0>>)))
            = 1
       /\ Cardinality({i \in 1..Len(last.out) :
                         last.out[i].name = "ChunkDataAndUpdateLight"}) = 49
       /\ \A x \in -3..3, z \in -3..3 :
            Cardinality(PlacesOf(last.out,
                               Packet("ChunkDataAndUpdateLight",
                                      [x |-> x, z |-> z, sections |-> 24])))
              = 1

\* a ConfirmTeleportation with the expected id was accepted and its packets
\* wait to be sent
C28_Witness ==
    /\ last.kind = "accept" /\ last.st = "ok"
    /\ last.pkt = "ConfirmTeleportation" /\ last.res = "Ok"
    /\ last.this[1] = last.pre.teleport_id
    /\ Len(rout) = Len(last.out) /\ rout # <<>>

(***************************************************************************)
(* Properties of the server.                                               *)
(***************************************************************************)
\* the steps of the writer of an actor
WriterSteps == {"recv", "lock", "read", "unlock", "reply"}

C30_AcceptNotBlocked ==
    ~(server.reading /\ server.pending # 0 /\ server.queued)

(***************************************************************************)
(* Properties of hexdigest.                                                *)
(***************************************************************************)
\* the number a sequence of bytes is as a big-endian two's-complement
\* signed integer
RECURSIVE Unsigned(_)
Unsigned(bytes) ==
    IF bytes = <<>> THEN 0
    ELSE 256 * Unsigned(SubSeq(bytes, 1, Len(bytes) - 1)) + bytes[Len(bytes)]

Signed(bytes) ==
    IF bytes # <<>> /\ bytes[1] >= 128
    THEN Unsigned(bytes) - Pow2(8 * Len(bytes))
    ELSE Unsigned(bytes)

\* the lowercase hex digits of a natural number, none for zero
RECURSIVE HexOfNat(_)
HexOfNat(n) ==
    IF n = 0 THEN <<>> ELSE HexOfNat(n \div 16) \o <<HexChars[(n % 16) + 1]>>

HexNotch ==
    <<"4", "e", "d", "1", "f", "4", "6", "b", "b", "e", "0", "4", "b", "c",
      "7", "5", "6", "b", "c", "b", "1", "7", "c", "0", "c", "7", "c", "e",
      "3", "e", "4", "6", "3", "2", "f", "0", "6", "a", "4", "8">>

HexJeb ==
    <<"-", "7", "c", "9", "d", "5", "b", "0", "0", "4", "4", "c", "1", "3",
      "0", "1", "0", "9", "a", "5", "d", "7", "b", "5", "f", "b", "5", "c",
      "3", "1", "7", "c", "0", "2", "b", "4", "e", "2", "8", "c", "1">>

HexSimon ==
    <<"8", "8", "e", "1", "6", "a", "1", "0", "1", "9", "2", "7", "7", "b",
      "1", "5", "d", "5", "8", "f", "a", "f", "0", "5", "4", "1", "e", "1",
      "1", "9", "1", "0", "e", "b", "7", "5", "6", "f", "6">>

\* C31: hexdigest interprets the digest bytes as a big-endian
\* two's-complement signed integer and returns its lowercase hex without
\* leading zeros, prefixed with '-' and using the absolute value when the top
\* bit of the digest is set; the digests of "Notch", "jeb_" and "simon" give
\* the strings of the tests.
C31_HexDigest ==
    last.kind = "hexdigest" =>
      /\ Len(last.bytes) <= 3 =>
           last.res = IF Signed(last.bytes) < 0
                      THEN <<"-">> \o HexOfNat(-Signed(last.bytes))
                      ELSE HexOfNat(Signed(last.bytes))
      /\ last.res # <<>> => last.res[1] # "0"
      /\ (last.res # <<>> /\ last.res[1] = "-")
           = (last.bytes # <<>> /\ last.bytes[1] >= 128)
      /\ last.bytes = DigestNotch => last.res = HexNotch
      /\ last.bytes = DigestJeb => last.res = HexJeb
      /\ last.bytes = DigestSimon => last.res = HexSimon

\* the digest of "jeb_", whose top bit is set, has been given
C31_Witness ==
    /\ last.kind = "hexdigest"
    /\ last.bytes = DigestJeb
    /\ last.res[1] = "-"

(***************************************************************************)
(* The heartbeat, the channel, the position and the login.                 *)
(***************************************************************************)
\* the keepalive of a state
KeepAliveOf(state) ==
    IF state = "Configuration" THEN "ConfigurationKeepAlive"
    ELSE "PlayKeepAlive"

\* C32: a heartbeat tick overwrites keep_alive_id only when the connection
\* is in Configuration or Play, and then enqueues exactly one keepalive of
\* the matching kind carrying the nonce it stored; a tick in any other state
\* changes no connection field and enqueues nothing.
C32_TickFrame ==
    [][hpc = "tick" /\ hpc' # "tick" =>
         IF connection.state \in {"Configuration", "Play"}
         THEN /\ connection' = [connection EXCEPT
                                  !.keep_alive_id = connection'.keep_alive_id]
              /\ hpc' = "send"
              /\ hmsg'.kind = "SendPacket"
              /\ hmsg'.packet = Packet(KeepAliveOf(connection.state),
                                       connection'.keep_alive_id)
         ELSE /\ connection' = connection
              /\ hmsg' = NoMsg
              /\ queue' = queue]_vars

\* a step of the writer that takes the head of the channel
Written == last.kind \in {"written", "writeError"}

\* the channel changes by a send at its end or by the writer taking its head
ChannelFifo ==
    [][queue' # queue =>
         \/ /\ queue # <<>>
            /\ queue' = Tail(queue)
            /\ last'.kind \in {"written", "writeError"}
            /\ last'.msg = Head(queue)
         \/ Len(queue') = Len(queue) + 1
            /\ SubSeq(queue', 1, Len(queue)) = queue]_vars

MovePackets ==
    {"SetPlayerPosition", "SetPlayerPositionAndRotation", "SetPlayerRotation"}

\* the connection apart from the cached position
Apart(con) == [con EXCEPT !.position = <<>>]

\* C34: SetPlayerPosition stores x, y, z and on_ground and keeps yaw and
\* pitch; SetPlayerRotation stores yaw, pitch (the f32 widened to f64) and
\* on_ground and keeps x, y, z; SetPlayerPositionAndRotation stores all
\* six.  None changes the state, keep_alive_id, teleport_id or any other
\* field of the connection, and none returns a packet.
C34_PositionFrames ==
    last.kind = "accept" /\ last.st = "ok" /\ last.pkt \in MovePackets =>
      LET old == last.pre.position
          new == connection.position
          this == last.this
      IN /\ last.res = "Ok"
         /\ last.out = <<>>
         /\ rout = <<>> /\ rpc = "loop"
         /\ Apart(connection) = Apart(last.pre)
         /\ connection.state = "Play"
         /\ CASE last.pkt = "SetPlayerPosition" ->
                   new = [x |-> this[1], y |-> this[2], z |-> this[3],
                          yaw |-> old.yaw, pitch |-> old.pitch,
                          on_ground |-> this[4]]
              [] last.pkt = "SetPlayerRotation" ->
                   new = [x |-> old.x, y |-> old.y, z |-> old.z,
                          yaw |-> F32AsF64(this[1]),
                          pitch |-> F32AsF64(this[2]),
                          on_ground |-> this[3]]
              [] last.pkt = "SetPlayerPositionAndRotation" ->
                   new = [x |-> this[1], y |-> this[2], z |-> this[3],
                          yaw |-> F32AsF64(this[4]),
                          pitch |-> F32AsF64(this[5]),
                          on_ground |-> this[6]]

\* a SetPlayerPosition arrives after the peer has set another position and
\* a rotation, and the heartbeat has stored a nonce
C34_Witness ==
    /\ last.kind = "accept" /\ last.st = "ok"
    /\ last.pkt = "SetPlayerPosition"
    /\ last.pre.position.x \notin {F64Of(0), last.this[1]}
    /\ connection.position.x = last.this[1]
    /\ connection.position.yaw = F32AsF64(F32Of(65))
    /\ connection.keep_alive_id # I64Of(0)

\* the conditional fields of packets/client.rs: the place of the flag of
\* {flag == true} && T and the place of the field among the fields
Conditions(name) ==
    CASE name = "PlayLogin" -> {<<17, 18>>, <<17, 19>>}
      [] name = "DisguisedChatMessage" -> {<<4, 5>>}
      [] OTHER -> {}

\* C35: A written packet with a conditional field (PlayLogin's
\* death_dimension_name and death_location, DisguisedChatMessage's
\* target_name) holds the field exactly when its flag is true, whatever
\* arguments new() was given.
C35_FlagAgrees ==
    last.kind = "write" /\ last.item.ty = "Packet" =>
      \A c \in Conditions(last.item.elem) :
        /\ ClientPacketFields(last.item.elem)[c[1]].k = "bool"
        /\ ClientPacketFields(last.item.elem)[c[2]].k = "Option"
        /\ last.value[c[1]] <=> last.value[c[2]] # <<>>

\* C36: A connection is in Configuration or Play only after the server
\* has enqueued LoginSuccess on it: LoginAck moves the connection on only
\* after the login was completed.
C36_LoginSuccessFirst ==
    connection.state \in {"Configuration", "Play"} => hist.loginSuccess

\* C37: An echo is accepted only for a nonce the server sent: while no
\* SynchronizePlayerPosition was returned every ConfirmTeleportation ends
\* in TeleportIdMismatch, and while the heartbeat has enqueued no keepalive
\* every ConfigurationKeepAlive and PlayKeepAlive ends in
\* KeepAliveIdMismatch, the echoes of 0 included.
C37_OnlySentNonces ==
    last.kind = "accept" /\ last.st = "ok" =>
      /\ (last.pkt = "ConfirmTeleportation" /\ ~hist.syncSent)
           => last.res = "TeleportIdMismatch"
      /\ (last.pkt \in {"ConfigurationKeepAlive", "PlayKeepAlive"}
            /\ group = "config" /\ hist.sentKA = {})
           => last.res = "KeepAliveIdMismatch"

\* C38: No ConfigurationKeepAlive is written to the socket after PlayLogin
\* was written, however the heartbeat and the reader's handling of
\* ConfigurationFinish interleave.
C38_KeepAliveMatchesState ==
    (last.kind = "written"
       /\ last.msg.packet.name = "ConfigurationKeepAlive")
      => ~hist.playLogin

(***************************************************************************)
(* Further properties of the section.                                      *)
(***************************************************************************)
\* a container with a palette of more than one value
Indirect(this) == this.palette # <<>> /\ PaletteLen(this.palette[1]) > 1

\* the ids of a palette upward
Ascending(this) == [k \in 1..PaletteLen(this) |-> k - 1]

\* bitsPerValue, the length of the palette, the value of id 0, of id 1 and
\* so on, then the packed ids
IndirectBytes(this) ==
    <<this.data.bits_per_value % 256>>
    \o VarIntWrite(PaletteLen(this.palette[1]))
    \o StatesWrite(this.palette[1], Ascending(this.palette[1]),
                   1, PaletteLen(this.palette[1]))
    \o PackedArrayWrite(this.data)

\* C39: An indirect palette is written as its length and then its values
\* in ascending order of their ids: entry i on the wire is the value of
\* palette id i, so that the packed ids decode to the values set and every
\* write of the container gives the same bytes.
C39_PaletteAscending ==
    last.kind = "write" =>
      /\ Indirect(section.blocks) => last.blocks = IndirectBytes(section.blocks)
      /\ Indirect(section.biomes) => last.biomes = IndirectBytes(section.biomes)

\* C40: A set_block that returns PositionOutOfBounds leaves air_count and
\* every block of the section as they were, for air and for every other
\* new state.
C40_FailedSetBlock ==
    [][(last'.kind = "set" /\ last'.st = "err" /\ hist.kind = "Blocks")
         => section' = section]_vars

====
